---- MODULE Spec2Model ----
(***************************************************************************)
(* State-machine model of the step sequencer in src/src/routes/+page.svelte *)
(* (pattern store, sequence timeline, transport scheduler, note dispatcher  *)
(* with its legato registry, and the selection editor).                     *)
(*                                                                          *)
(* Conventions.  Steps, pitches, sequence positions and pattern ids are     *)
(* 0-based as in the source; TLA+ sequences are 1-based, so the array       *)
(* element a[i] of the source is a[i + 1] here.  Time is counted in units   *)
(* of 0.1 ms (10000 units per second).  The audio clock ctx.currentTime and *)
(* the clock of window.setTimeout are one clock, and every time the state   *)
(* holds (a timeout's deadline, a release time, a scheduled stop) is kept   *)
(* relative to the present instant: the clock reads CurrentTime = 0 in      *)
(* every handler, and the passage of d units (Advance) lowers every stored  *)
(* time by d.  This is the source's arithmetic in a moving frame; it keeps  *)
(* the state space finite without stopping the clock.                       *)
(***************************************************************************)
EXTENDS Integers, Sequences, FiniteSets, TLC

(***************************************************************************)
(* Program constants (+page.svelte lines 4-18).                             *)
(***************************************************************************)
MAX_STEPS == 32
NUM_OCTAVES == 6
NUM_PITCHES == NUM_OCTAVES * 12
BASE_MIDI_NOTE == 48
MIN_BPM == 40
MAX_BPM == 300
MIN_BEATS_PER_MEASURE == 1
MAX_BEATS_PER_MEASURE == 16
MIN_STEPS_PER_BEAT == 1
MAX_STEPS_PER_BEAT == 16
MAX_MEASURES == 8
MIN_PATTERN_ID == 0
MAX_PATTERNS == 8
\* createPattern(MIN_PATTERN_ID + i, 4, 4) in reset(), and the 4 * 4 that
\* stepsPerPattern returns for an unknown pattern id.
DEFAULT_BEATS == 4
DEFAULT_STEPS_PER_BEAT == 4
DEFAULT_BPM == 120
\* 0.02 s: a legato voice closer than this to its release is replaced.
LEGATO_GUARD == 200
\* 0.05 s: the tail after which a non-legato oscillator is stopped.
STOP_TAIL == 500

(***************************************************************************)
(* Bounds of the model (not program constants).                             *)
(***************************************************************************)
\* ticksSinceStart counts the ticks of a loop up to MaxTicks, then stays.
MaxTicks == 4
\* The pause by which the host may deliver a timer late (one Advance step).
TimeJump == 1100
\* Edits of the song (grid, meter, sequence, synth) made in one behaviour.
MaxEdits == 3
\* The pointer visits cells with step <= MaxStepIn and pitch <= MaxPitchIn.
MaxStepIn == 1
MaxPitchIn == 1
\* The sequence is grown to at most MaxSeqLen entries.
MaxSeqLen == 2
\* Calls of start() that wait for ctx.resume() at the same time.
MaxAwaiting == 1
\* The editing sessions are MaxOps events long.
MaxOps == 5
\* At most MaxVoices oscillators sound at once.
MaxVoices == 3
\* the global steps past totalSteps() that are looked up
MaxBeyond == 2
\* the sequences whose every global step is looked up have up to MaxLookupLen cells
MaxLookupLen == 3
\* The drag sessions are MaxDragOps events long, those under the scale lock
\* MaxLockOps.
MaxDragOps == 7
MaxLockOps == 7
\* A song is set up for the tempo runs by at most MaxTempoOps edits
MaxTempoOps == 5
\* The runs that edit while the song plays make at most MaxFollowOps edits
MaxFollowOps == 4
\* edit events of a session that paints a stroke while the song plays
MaxGestureOps == 5
\* the longest loop of the song left playing: one pattern of sixteen steps
MaxLoopSteps == 16

(***************************************************************************)
(* Numbers.  A JavaScript number held by a tempo or meter field is a record *)
(* [kind, n]: the integer n (Num(n)), the value n + 1/2 (Half(n)), or NaN,  *)
(* which stands for every value Number.isFinite rejects (NaN, +-Infinity,   *)
(* and the null of an emptied input).                                       *)
(***************************************************************************)
Num(n) == [kind |-> "int", n |-> n]
Half(n) == [kind |-> "half", n |-> n]
NaN == [kind |-> "nan", n |-> 0]
IsFinite(v) == v.kind # "nan"
\* v < k and v > k for a finite v and an integer k
NumLT(v, k) == v.n < k
NumGT(v, k) == IF v.kind = "int" THEN v.n > k ELSE v.n >= k
\* Math.trunc, an integer
Trunc(v) == IF v.kind = "int" \/ v.n >= 0 THEN v.n ELSE v.n + 1

Min(a, b) == IF a < b THEN a ELSE b
Max(a, b) == IF a > b THEN a ELSE b

\* The elements of a finite set of integers in increasing order.
RECURSIVE SortedSeq(_)
SortedSeq(S) ==
    IF S = {} THEN << >>
    ELSE LET m == CHOOSE x \in S : \A y \in S : x <= y
         IN  << m >> \o SortedSeq(S \ {m})

\* clampBpm returns the number itself when it is in range (no truncation).
clampBpm(value) ==
    IF ~IsFinite(value) THEN Num(MIN_BPM)
    ELSE IF NumLT(value, MIN_BPM) THEN Num(MIN_BPM)
    ELSE IF NumGT(value, MAX_BPM) THEN Num(MAX_BPM)
    ELSE value

\* The two meter clamps return an integer.
clampBeatsPerMeasure(value) ==
    IF ~IsFinite(value) THEN MIN_BEATS_PER_MEASURE
    ELSE IF NumLT(value, MIN_BEATS_PER_MEASURE) THEN MIN_BEATS_PER_MEASURE
    ELSE IF NumGT(value, MAX_BEATS_PER_MEASURE) THEN MAX_BEATS_PER_MEASURE
    ELSE Trunc(value)

clampStepsPerBeat(value) ==
    IF ~IsFinite(value) THEN MIN_STEPS_PER_BEAT
    ELSE IF NumLT(value, MIN_STEPS_PER_BEAT) THEN MIN_STEPS_PER_BEAT
    ELSE IF NumGT(value, MAX_STEPS_PER_BEAT) THEN MAX_STEPS_PER_BEAT
    ELSE Trunc(value)

(***************************************************************************)
(* Pattern store.  A Step is its pitches array, kept as the array's length  *)
(* and the set of indices that hold true.                                   *)
(***************************************************************************)
EmptyStep == [pitches |-> [length |-> NUM_PITCHES, on |-> {}]]

createStepLayer(stepCount) == [i \in 1..stepCount |-> EmptyStep]

createPattern(patternId, beats, steps) ==
    LET clampedBeats == clampBeatsPerMeasure(beats)
        clampedSteps == clampStepsPerBeat(steps)
        stepsCount == clampedBeats * clampedSteps
    IN  [ id |-> patternId,
          beatsPerMeasure |-> Num(clampedBeats),
          stepsPerBeat |-> Num(clampedSteps),
          layers |-> << createStepLayer(stepsCount), createStepLayer(stepsCount) >> ]

(***************************************************************************)
(* State.  The first group is the component's $state; timeoutId and         *)
(* activeNotes are its plain variables.  audioCtx, awaiting, timers        *)
(* and voices are the host's side of the same code: the state of the cached *)
(* AudioContext, the calls of start() suspended at `await ctx.resume()`,    *)
(* the timeouts window.setTimeout holds, and the oscillators                *)
(* that were started and have not stopped.                                  *)
(***************************************************************************)
VARIABLES
    patterns, sequence, selectedSequenceIndex, isPlaying, currentStep,
    bpm, stepsPerBeat, key, scale, allowNonScaleNotes, synths,
    selectedSynthIndex,
    isPainting, paintTargetState, selectedNotes, selectionRectAnchor,
    selectionRectExtent, isSelectingRect, isDragging, dragStartCell,
    dragStartNotes, dragLastPositions, dragOverwrittenNotes, isCloning,
    timeoutId, activeNotes,
    audioCtx, awaiting, timers, voices,
    \* history: the handler that ran last, the playNote calls of the last
    \* playStep and the branch each of them took, the edits made so far,
    \* and the bookkeeping of the loop (the step start() began at, whether
    \* that moved currentStep, the ticks since, and whether the sequence
    \* and the meters are still those of that start()).
    lastOp, lastPlayed, lastHow, edits, startFirst, startMoved,
    ticksSinceStart, loopClean,
    \* history of the editor: the displayed layer as it was when the drag in
    \* progress began, while the pointer is all that has moved since
    dragStartLayer

storeVars == << patterns, sequence, selectedSequenceIndex, bpm, stepsPerBeat,
                key, scale, allowNonScaleNotes, synths, selectedSynthIndex >>
editorVars == << isPainting, paintTargetState, selectedNotes,
                 selectionRectAnchor, selectionRectExtent, isSelectingRect,
                 isDragging, dragStartCell, dragStartNotes, dragLastPositions,
                 dragOverwrittenNotes, isCloning, dragStartLayer >>
transportVars == << isPlaying, currentStep, timeoutId, activeNotes, audioCtx,
                    awaiting, timers, voices >>
historyVars == << lastPlayed, lastHow, startFirst, startMoved, ticksSinceStart, loopClean >>
vars == << storeVars, editorVars, transportVars, historyVars, lastOp, edits >>

\* timeoutId = null
NoTimeout == 0
\* a null cell (selectionRectAnchor, selectionRectExtent, dragStartCell)
NullCell == << >>
\* dragStartLayer when no drag is being followed
NoLayer == << >>
\* the null of getPatternAtStep
NotFound == [patternIndex |-> -1, stepInPattern |-> -1, patternId |-> -1]

(***************************************************************************)
(* Pattern and sequence lookups.  Each function of the source that reads    *)
(* the component's patterns or sequence is an operator of those values, so  *)
(* that a handler can apply it to the values it has just written.           *)
(***************************************************************************)
\* patterns.find((p) => p.id === patternId): the position of the first
\* pattern with that id, 0 for undefined.
FindPattern(pats, patternId) ==
    IF \E i \in DOMAIN pats : pats[i].id = patternId
    THEN CHOOSE i \in DOMAIN pats :
            /\ pats[i].id = patternId
            /\ \A j \in DOMAIN pats : pats[j].id = patternId => i <= j
    ELSE 0

StepsOf(pats, patternId) ==
    LET i == FindPattern(pats, patternId)
    IN  IF i = 0 THEN DEFAULT_BEATS * DEFAULT_STEPS_PER_BEAT
        ELSE clampBeatsPerMeasure(pats[i].beatsPerMeasure)
                * clampStepsPerBeat(pats[i].stepsPerBeat)

stepsPerPattern(patternId) == StepsOf(patterns, patternId)

RECURSIVE SumSteps(_, _, _)
\* the sum of StepsOf over seq[1 .. n]
SumSteps(pats, seq, n) ==
    IF n <= 0 THEN 0
    ELSE SumSteps(pats, seq, n - 1) + StepsOf(pats, seq[n])

StepForSequenceIndex(pats, seq, seqIndex) ==
    SumSteps(pats, seq, Min(Max(seqIndex, 0), Len(seq)))

\* a playhead that always starts from the top of the sequence
StepZero(seqIndex) == 0

getStepForSequenceIndex(seqIndex) ==
    StepForSequenceIndex(patterns, sequence, seqIndex)

TotalStepsOf(pats, seq) == SumSteps(pats, seq, Len(seq))

\* a loop that ends with the pattern of the first sequence cell
FirstPatternSteps == StepsOf(patterns, sequence[1])

totalSteps == TotalStepsOf(patterns, sequence)

RECURSIVE ScanPatternAt(_, _, _, _, _)
\* the loop of getPatternAtStep from position i (0-based) with accumulator acc
ScanPatternAt(pats, seq, globalStep, i, acc) ==
    IF i >= Len(seq) THEN NotFound
    ELSE LET patSteps == StepsOf(pats, seq[i + 1])
         IN  IF globalStep < acc + patSteps
             THEN [ patternIndex |-> i,
                    stepInPattern |-> globalStep - acc,
                    patternId |-> seq[i + 1] ]
             ELSE ScanPatternAt(pats, seq, globalStep, i + 1, acc + patSteps)

RECURSIVE ScanInclusive(_, _, _, _, _)
\* the same loop with `globalStep <= acc + patSteps` for its test
ScanInclusive(pats, seq, globalStep, i, acc) ==
    IF i >= Len(seq) THEN NotFound
    ELSE LET patSteps == StepsOf(pats, seq[i + 1])
         IN  IF globalStep <= acc + patSteps
             THEN [ patternIndex |-> i,
                    stepInPattern |-> globalStep - acc,
                    patternId |-> seq[i + 1] ]
             ELSE ScanInclusive(pats, seq, globalStep, i + 1, acc + patSteps)

PatternAtStepInclusive(pats, seq, globalStep) ==
    ScanInclusive(pats, seq, globalStep, 0, 0)

\* a lookup that wraps a step past the end round to the start of the loop
PatternAtStepWrapped(pats, seq, globalStep) ==
    ScanPatternAt(pats, seq, globalStep % TotalStepsOf(pats, seq), 0, 0)

PatternAtStep(pats, seq, globalStep) == ScanPatternAt(pats, seq, globalStep, 0, 0)

getPatternAtStep(globalStep) == PatternAtStep(patterns, sequence, globalStep)

\* sequence[selectedSequenceIndex] ?? MIN_PATTERN_ID
selectedPatternId ==
    IF selectedSequenceIndex >= 0 /\ selectedSequenceIndex < Len(sequence)
    THEN sequence[selectedSequenceIndex + 1]
    ELSE MIN_PATTERN_ID

\* a grid that shows the selected cell's pattern whether or not the song plays
displayedPatternIdStill == selectedPatternId

displayedPatternId ==
    IF isPlaying
    THEN LET at == getPatternAtStep(currentStep)
         IN  IF at = NotFound THEN selectedPatternId ELSE at.patternId
    ELSE selectedPatternId

\* the position in patterns of the displayed pattern, 0 for null
displayedPattern == FindPattern(patterns, displayedPatternId)

\* getCurrentLayer() returns null when HasCurrentLayer is false
HasCurrentLayer ==
    /\ displayedPattern # 0
    /\ selectedSynthIndex < Len(patterns[displayedPattern].layers)

getCurrentLayer == patterns[displayedPattern].layers[selectedSynthIndex + 1]

(***************************************************************************)
(* The $effect that resizes every layer to its pattern's step count.  It    *)
(* runs after every handler that wrote a value it reads, before the next    *)
(* event is delivered, so every action below ends with it.                  *)
(***************************************************************************)
\* a resize that stops at the 32 steps of MAX_STEPS
ResizeCapped(layer, stepsPerPat) ==
    LET n == Min(stepsPerPat, MAX_STEPS)
    IN  IF n > Len(layer)
        THEN layer \o [i \in 1..(n - Len(layer)) |-> EmptyStep]
        ELSE SubSeq(layer, 1, n)

\* no resize at all
KeepLayer(layer, stepsPerPat) == layer

ResizeLayer(layer, stepsPerPat) ==
    IF Len(layer) = stepsPerPat THEN layer
    ELSE IF stepsPerPat > Len(layer)
         THEN layer \o [i \in 1..(stepsPerPat - Len(layer)) |-> EmptyStep]
         ELSE SubSeq(layer, 1, stepsPerPat)

ResizeEffect(pats) ==
    [ i \in DOMAIN pats |->
        [ pats[i] EXCEPT !.layers =
            [ l \in DOMAIN @ |-> ResizeLayer(@[l], StepsOf(pats, pats[i].id)) ] ] ]

(***************************************************************************)
(* Note dispatch.  A voice is one oscillator that was started and has not   *)
(* stopped: [id, synthId, midiNote, stopAt], stopAt being the time of its   *)
(* scheduled osc.stop(t), or NoStop.  activeNotes maps the key              *)
(* `${synth.id}-${midiNote}`, here the pair << synth.id, midiNote >>, to    *)
(* [voice, releaseAt], voice being the id of the entry's oscillator.        *)
(***************************************************************************)
NoStop == -1

\* ctx.currentTime, read by a handler
CurrentTime == 0

\* 60 / (bpm * steps) seconds, in time units, rounded down to the unit
StepDuration(bpmValue, spbValue) ==
    LET numericBpm == clampBpm(bpmValue)
        steps == clampStepsPerBeat(spbValue)
        twiceBpm == 2 * numericBpm.n + (IF numericBpm.kind = "half" THEN 1 ELSE 0)
    IN  (2 * 60 * 10000) \div (twiceBpm * steps)

stepDurationSeconds == StepDuration(bpm, stepsPerBeat)

\* window.setTimeout(f, ms) truncates its delay to whole milliseconds
TimeoutDelay(units) == (units \div 10) * 10

NewVoiceId(vs) ==
    CHOOSE n \in 1..(Cardinality(vs) + 1) : \A v \in vs : v.id # n

NewTimerId(ts, current) ==
    CHOOSE n \in 1..(Cardinality(ts) + 2) :
        n # current /\ \A t \in ts : t.id # n

RemoveKey(reg, k) == [ x \in DOMAIN reg \ {k} |-> reg[x] ]

\* playNote without its legato test: every call starts one more oscillator
playNoteStack(midiNote, time, duration, synth, clock, reg, vs) ==
    LET k == << synth.id, midiNote >>
        osc == NewVoiceId(vs)
    IN  [ reg |-> IF synth.legatoSameNote
                  THEN (k :> [voice |-> osc, releaseAt |-> time + duration]) @@ reg
                  ELSE reg,
          vs |-> vs \cup { [ id |-> osc, synthId |-> synth.id, midiNote |-> midiNote,
                             stopAt |-> IF synth.legatoSameNote THEN NoStop
                                        ELSE time + duration + STOP_TAIL ] },
          how |-> [branch |-> "fresh", early |-> FALSE] ]

\* playNote that keeps every oscillator in the registry, legato or not
playNoteTrackAll(midiNote, time, duration, synth, clock, reg, vs) ==
    LET k == << synth.id, midiNote >>
        osc == NewVoiceId({ v \in vs : k \notin DOMAIN reg \/ v.id # reg[k].voice })
    IN  [ reg |-> (k :> [voice |-> osc, releaseAt |-> time + duration]) @@ reg,
          vs |-> { v \in vs : k \notin DOMAIN reg \/ v.id # reg[k].voice }
                 \cup { [ id |-> osc, synthId |-> synth.id, midiNote |-> midiNote,
                          stopAt |-> NoStop ] },
          how |-> [branch |-> "fresh", early |-> FALSE] ]

\* playNote whose legato test has no margin: it re-envelopes up to releaseAt
playNoteNoGuard(midiNote, time, duration, synth, clock, reg, vs) ==
    LET k == << synth.id, midiNote >>
        existing == k \in DOMAIN reg
        osc == NewVoiceId({ v \in vs : ~existing \/ v.id # reg[k].voice })
        early == existing /\ clock < reg[k].releaseAt
    IN  IF synth.legatoSameNote /\ early
        THEN [ reg |-> [reg EXCEPT ![k].releaseAt = time + duration], vs |-> vs,
               how |-> [branch |-> "sustain", early |-> early] ]
        ELSE IF synth.legatoSameNote
        THEN [ reg |-> (k :> [voice |-> osc, releaseAt |-> time + duration]) @@ reg,
               vs |-> { v \in vs : ~existing \/ v.id # reg[k].voice }
                      \cup { [ id |-> osc, synthId |-> synth.id, midiNote |-> midiNote,
                               stopAt |-> NoStop ] },
               how |-> [branch |-> IF existing THEN "replace" ELSE "fresh",
                        early |-> early] ]
        ELSE [ reg |-> reg,
               vs |-> vs \cup { [ id |-> NewVoiceId(vs), synthId |-> synth.id,
                                  midiNote |-> midiNote,
                                  stopAt |-> time + duration + STOP_TAIL ] },
               how |-> [branch |-> "fresh", early |-> early] ]

\* playNote(midiNote, time, duration, synth) at clock time `clock`, as a
\* function of the registry and the voices: the pair it leaves.
playNote(midiNote, time, duration, synth, clock, reg, vs) ==
    LET k == << synth.id, midiNote >>
        existing == k \in DOMAIN reg
        fresh(reg1, vs1) ==
            LET osc == NewVoiceId(vs1)
            IN  IF synth.legatoSameNote
                THEN [ reg |-> reg1 @@ (k :> [voice |-> osc, releaseAt |-> time + duration]),
                       vs |-> vs1 \cup { [ id |-> osc, synthId |-> synth.id,
                                           midiNote |-> midiNote, stopAt |-> NoStop ] } ]
                ELSE [ reg |-> reg1,
                       vs |-> vs1 \cup { [ id |-> osc, synthId |-> synth.id,
                                           midiNote |-> midiNote,
                                           stopAt |-> time + duration + STOP_TAIL ] } ]
        early == existing /\ clock < reg[k].releaseAt
    IN  IF synth.legatoSameNote /\ existing
        THEN IF clock < reg[k].releaseAt - LEGATO_GUARD
             THEN [ reg |-> [reg EXCEPT ![k].releaseAt = time + duration], vs |-> vs,
                    how |-> [branch |-> "sustain", early |-> early] ]
             ELSE fresh(RemoveKey(reg, k), { v \in vs : v.id # reg[k].voice })
                     @@ [how |-> [branch |-> "replace", early |-> early]]
        ELSE fresh(reg, vs) @@ [how |-> [branch |-> "fresh", early |-> early]]

\* The playNote calls of playStep(step), in the order of its two loops.
PlayStepCalls(pats, seq, syns, stepDur, clock, step) ==
    LET at == PatternAtStep(pats, seq, step)
        pattern == FindPattern(pats, at.patternId)
        callsOf(synthIndex) ==
            LET synth == syns[synthIndex + 1]
                layer == pats[pattern].layers[synthIndex + 1]
                duration == IF synth.legatoSameNote THEN stepDur * 2
                            ELSE (stepDur * 9) \div 10
                pitches == SortedSeq(layer[at.stepInPattern + 1].pitches.on)
            IN  IF synthIndex >= Len(pats[pattern].layers)
                   \/ at.stepInPattern >= Len(layer)
                THEN << >>
                ELSE [ i \in 1..Len(pitches) |->
                        [ midiNote |-> BASE_MIDI_NOTE + (NUM_PITCHES - 1 - pitches[i]),
                          time |-> clock, duration |-> duration, synth |-> synth ] ]
        RECURSIVE allCalls(_)
        allCalls(synthIndex) ==
            IF synthIndex >= Len(syns) THEN << >>
            ELSE callsOf(synthIndex) \o allCalls(synthIndex + 1)
    IN  IF at = NotFound \/ pattern = 0 THEN << >> ELSE allCalls(0)

RECURSIVE PlayCalls(_, _, _, _)
PlayCalls(calls, clock, reg, vs) ==
    IF calls = << >> THEN [reg |-> reg, vs |-> vs, how |-> << >>]
    ELSE LET c == Head(calls)
             r == playNote(c.midiNote, c.time, c.duration, c.synth, clock, reg, vs)
             rest == PlayCalls(Tail(calls), clock, r.reg, r.vs)
         IN  [rest EXCEPT !.how = << r.how >> \o @]

\* playStep(step): its effect on activeNotes and voices, and its calls
playStep(step) ==
    LET calls == PlayStepCalls(patterns, sequence, synths, stepDurationSeconds,
                               CurrentTime, step)
        r == PlayCalls(calls, CurrentTime, activeNotes, voices)
    IN  /\ Cardinality(r.vs) <= MaxVoices
        /\ activeNotes' = r.reg
        /\ voices' = r.vs
        /\ lastPlayed' = calls
        /\ lastHow' = r.how

(***************************************************************************)
(* Scale theory.                                                            *)
(***************************************************************************)
chromatic == << "C", "C#", "D", "D#", "E", "F", "F#", "G", "G#", "A", "A#", "B" >>
keys == chromatic

scaleNames == << "Major", "Natural Minor", "Harmonic Minor", "Melodic Minor",
                 "Dorian", "Phrygian", "Lydian", "Mixolydian", "Locrian",
                 "Pentatonic Major", "Pentatonic Minor", "Blues", "Chromatic" >>

scales ==
    [ name \in { scaleNames[i] : i \in DOMAIN scaleNames } |->
        CASE name = "Major" -> {0, 2, 4, 5, 7, 9, 11}
          [] name = "Natural Minor" -> {0, 2, 3, 5, 7, 8, 10}
          [] name = "Harmonic Minor" -> {0, 2, 3, 5, 7, 8, 11}
          [] name = "Melodic Minor" -> {0, 2, 3, 5, 7, 9, 11}
          [] name = "Dorian" -> {0, 2, 3, 5, 7, 9, 10}
          [] name = "Phrygian" -> {0, 1, 3, 5, 7, 8, 10}
          [] name = "Lydian" -> {0, 2, 4, 6, 7, 9, 11}
          [] name = "Mixolydian" -> {0, 2, 4, 5, 7, 9, 10}
          [] name = "Locrian" -> {0, 1, 3, 5, 6, 8, 10}
          [] name = "Pentatonic Major" -> {0, 2, 4, 7, 9}
          [] name = "Pentatonic Minor" -> {0, 3, 5, 7, 10}
          [] name = "Blues" -> {0, 3, 5, 6, 7, 10}
          [] name = "Chromatic" -> 0..11 ]

\* JavaScript's %: the remainder has the sign of the dividend
JsMod(a, b) == IF a >= 0 THEN a % b ELSE -((-a) % b)

\* chromatic.indexOf(noteName): 0-based, -1 when absent
getChromaticIndex(noteName) ==
    IF \E i \in DOMAIN chromatic : chromatic[i] = noteName
    THEN (CHOOSE i \in DOMAIN chromatic : chromatic[i] = noteName) - 1
    ELSE -1

\* a grid whose slot 0 is the lowest pitch
NoteInOctaveLowFirst(pitchIndex) == JsMod(pitchIndex, 12)

NoteInOctave(pitchIndex) == JsMod(NUM_PITCHES - 1 - pitchIndex, 12)

RootNoteOf(k, pitchIndex) == NoteInOctave(pitchIndex) = getChromaticIndex(k)

FifthNoteOf(k, pitchIndex) ==
    NoteInOctave(pitchIndex) = JsMod(getChromaticIndex(k) + 7, 12)

InScaleOf(k, sc, pitchIndex) ==
    JsMod(NoteInOctave(pitchIndex) - getChromaticIndex(k) + 12, 12) \in scales[sc]

isRootNote(pitchIndex) == RootNoteOf(key, pitchIndex)
isFifthNote(pitchIndex) == FifthNoteOf(key, pitchIndex)
isInScale(pitchIndex) == InScaleOf(key, scale, pitchIndex)
isFifthInScale(pitchIndex) == isFifthNote(pitchIndex) /\ isInScale(pitchIndex)

(***************************************************************************)
(* Grid writes, as functions of the layer they write to.  A cell is the     *)
(* pair << step, pitch >>; a selection key `${step}-${pitch}` is the pair   *)
(* of the two numbers it was built from.                                    *)
(***************************************************************************)
\* column.pitches[pitch] / layer[step]?.pitches[pitch], truthy
HasNote(layer, step, pitch) ==
    /\ step >= 0
    /\ step < Len(layer)
    /\ pitch \in layer[step + 1].pitches.on

\* pitches[pitch] = value for every pitch of ps, on one Step: an index at or
\* past the end lengthens the array, a negative one is a property beside it.
WritePitches(stepRec, ps, value) ==
    LET top == IF ps = {} THEN -1 ELSE CHOOSE x \in ps : \A y \in ps : y <= x
    IN  [ pitches |->
            [ length |-> Max(stepRec.pitches.length, top + 1),
              on |-> IF value THEN stepRec.pitches.on \cup ps
                     ELSE stepRec.pitches.on \ ps ] ]

PitchesAt(positions, step) == { c[2] : c \in { d \in positions : d[1] = step } }

\* setCell after its scale-lock test: step >= layer.length returns
SetCellIn(layer, step, pitchIndex, state) ==
    IF step >= Len(layer) THEN layer
    ELSE [layer EXCEPT ![step + 1] = WritePitches(@, {pitchIndex}, state)]

\* clearNotesAt: `if (layer[step])` holds for the steps the layer has
ClearNotesIn(layer, positions) ==
    [ i \in 1..Len(layer) |-> WritePitches(layer[i], PitchesAt(positions, i - 1), FALSE) ]

InBounds(layer, c) ==
    c[1] >= 0 /\ c[1] < Len(layer) /\ c[2] >= 0 /\ c[2] < NUM_PITCHES

\* setNotesAt
SetNotesIn(layer, positions) ==
    LET ok == { c \in positions : InBounds(layer, c) }
    IN  [ i \in 1..Len(layer) |-> WritePitches(layer[i], PitchesAt(ok, i - 1), TRUE) ]

\* `${step}-${pitch}`.split('-') and unary +: the numbers read back from a key
ParseKey(k) ==
    IF k[1] < 0 THEN << 0, -k[1] >>
    ELSE IF k[2] < 0 THEN << k[1], 0 >>
    ELSE k

getSelectedNotesArray == { ParseKey(k) : k \in selectedNotes }

isNoteSelected(step, pitch) == << step, pitch >> \in selectedNotes

\* the handler's write of the current layer, followed by the resize effect
WithCurrentLayer(layer) ==
    ResizeEffect([patterns EXCEPT
        ![displayedPattern].layers[selectedSynthIndex + 1] = layer])

(***************************************************************************)
(* Initial state: the component after reset() and its declarations.         *)
(***************************************************************************)
Init ==
    /\ patterns = [ i \in 1..MAX_PATTERNS |->
                      createPattern(MIN_PATTERN_ID + (i - 1),
                                    Num(DEFAULT_BEATS), Num(DEFAULT_STEPS_PER_BEAT)) ]
    /\ sequence = << 0 >>
    /\ selectedSequenceIndex = 0
    /\ selectedNotes = {}
    /\ key = "C"
    /\ scale = "Natural Minor"
    /\ allowNonScaleNotes = TRUE
    /\ synths = << [id |-> 0, legatoSameNote |-> FALSE],
                   [id |-> 1, legatoSameNote |-> FALSE] >>
    /\ selectedSynthIndex = 0
    /\ bpm = Num(DEFAULT_BPM)
    /\ stepsPerBeat = Num(DEFAULT_STEPS_PER_BEAT)
    /\ isPlaying = FALSE
    /\ currentStep = 0
    /\ isPainting = FALSE
    /\ paintTargetState = TRUE
    /\ selectionRectAnchor = NullCell
    /\ selectionRectExtent = NullCell
    /\ isSelectingRect = FALSE
    /\ isDragging = FALSE
    /\ dragStartCell = NullCell
    /\ dragStartNotes = {}
    /\ dragLastPositions = {}
    /\ dragOverwrittenNotes = {}
    /\ isCloning = FALSE
    /\ dragStartLayer = NoLayer
    /\ timeoutId = NoTimeout
    /\ activeNotes = << >>
    /\ audioCtx = "none"
    /\ awaiting = 0
    /\ timers = {}
    /\ voices = {}
    /\ lastOp = "reset"
    /\ lastPlayed = << >>
    /\ lastHow = << >>
    /\ startMoved = FALSE
    /\ edits = 0
    /\ startFirst = 0
    /\ ticksSinceStart = 0
    /\ loopClean = FALSE

(***************************************************************************)
(* Transport.                                                               *)
(***************************************************************************)
\* setTimeout(startPlayingStepsUsingTimeout, durationMs), kept in timeoutId
ArmTimer(pending) ==
    LET id == NewTimerId(pending, timeoutId)
    IN  /\ timers' = pending \cup
                        { [id |-> id, due |-> CurrentTime + TimeoutDelay(stepDurationSeconds)] }
        /\ timeoutId' = id

\* start() from `currentStep = ...` on: what runs at once when the context
\* is running, and after `await ctx.resume()` when it was suspended.
StartRest ==
    LET first == getStepForSequenceIndex(selectedSequenceIndex)
    IN  /\ currentStep' = first
        /\ playStep(first)
        /\ ArmTimer(timers)
        /\ startFirst' = first
        /\ startMoved' = (currentStep # first)
        /\ ticksSinceStart' = 0
        /\ loopClean' = TRUE

\* start() without its `if (isPlaying) return`
StartAlways ==
    /\ lastOp' = "start"
    /\ UNCHANGED << storeVars, editorVars, awaiting >>
    /\ audioCtx' = "running"
    /\ isPlaying' = TRUE
    /\ StartRest

\* start().  ensureAudioContext() creates the context on the first call; a
\* new context is suspended or running, as the browser decides.
Start ==
    /\ lastOp' = "start"
    /\ UNCHANGED << storeVars, editorVars >>
    /\ IF isPlaying
       THEN UNCHANGED << transportVars, historyVars >>
       ELSE /\ isPlaying' = TRUE
            /\ \E state \in (IF audioCtx = "none" THEN {"suspended", "running"}
                             ELSE {audioCtx}) :
                 /\ audioCtx' = state
                 /\ IF state = "suspended"
                    THEN /\ awaiting < MaxAwaiting
                         /\ awaiting' = awaiting + 1
                         /\ UNCHANGED << currentStep, timeoutId, activeNotes,
                                         timers, voices, historyVars >>
                    ELSE /\ StartRest
                         /\ UNCHANGED awaiting

\* ctx.resume() settles: the context runs and one suspended start() goes on.
ResumeDone ==
    /\ awaiting > 0
    /\ awaiting' = awaiting - 1
    /\ audioCtx' = "running"
    /\ StartRest
    /\ lastOp' = "resumed"
    /\ UNCHANGED << storeVars, editorVars, isPlaying >>

\* a tick that dispatches the next step and arms no timeout
startPlayingStepsOnce(t) ==
    /\ t \in timers
    /\ CurrentTime >= t.due
    /\ lastOp' = "tick"
    /\ UNCHANGED << storeVars, editorVars, isPlaying, audioCtx, awaiting >>
    /\ IF ~isPlaying
       THEN /\ timers' = timers \ {t}
            /\ UNCHANGED << currentStep, timeoutId, activeNotes, voices, historyVars >>
       ELSE LET stepsInLoop == totalSteps
                next == (currentStep + 1) % stepsInLoop
            IN  /\ currentStep' = next
                /\ playStep(next)
                /\ timers' = timers \ {t}
                /\ timeoutId' = timeoutId
                /\ ticksSinceStart' = Min(ticksSinceStart + 1, MaxTicks)
                /\ loopClean' = (loopClean /\ ticksSinceStart < MaxTicks)
                /\ UNCHANGED << startFirst, startMoved >>

\* The timeout t fires: startPlayingStepsUsingTimeout().
startPlayingStepsUsingTimeout(t) ==
    /\ t \in timers
    /\ CurrentTime >= t.due
    /\ lastOp' = "tick"
    /\ UNCHANGED << storeVars, editorVars, isPlaying, audioCtx, awaiting >>
    /\ IF ~isPlaying
       THEN /\ timers' = timers \ {t}
            /\ UNCHANGED << currentStep, timeoutId, activeNotes, voices, historyVars >>
       ELSE LET stepsInLoop == totalSteps
                next == (currentStep + 1) % stepsInLoop
            IN  /\ currentStep' = next
                /\ playStep(next)
                /\ ArmTimer(timers \ {t})
                /\ ticksSinceStart' = Min(ticksSinceStart + 1, MaxTicks)
                /\ loopClean' = (loopClean /\ ticksSinceStart < MaxTicks)
                /\ UNCHANGED << startFirst, startMoved >>

\* stop()
Stop ==
    /\ lastOp' = "stop"
    /\ UNCHANGED << storeVars, editorVars, audioCtx, awaiting, currentStep,
                    lastPlayed, lastHow, startFirst, startMoved, ticksSinceStart >>
    /\ IF ~isPlaying
       THEN UNCHANGED << isPlaying, timeoutId, timers, activeNotes, voices, loopClean >>
       ELSE /\ isPlaying' = FALSE
            /\ loopClean' = FALSE
            /\ timers' = { t \in timers : t.id # timeoutId }
            /\ timeoutId' = NoTimeout
            /\ voices' = { v \in voices :
                             \A k \in DOMAIN activeNotes : activeNotes[k].voice # v.id }
            /\ activeNotes' = << >>

\* d units of time pass (d > 0): every stored time is lowered by d.  A
\* timeout that is due stays due, a release time that has passed stays
\* passed, and an oscillator whose scheduled stop time is reached stops.
Elapse(d) ==
    /\ timers' = { [t EXCEPT !.due = Max(t.due - d, 0)] : t \in timers }
    /\ activeNotes' = [ k \in DOMAIN activeNotes |->
                          [activeNotes[k] EXCEPT !.releaseAt = Max(@ - d, -1)] ]
    /\ voices' = { [v EXCEPT !.stopAt = @ - d] :
                     v \in { w \in voices : w.stopAt # NoStop /\ w.stopAt > d } }
                  \cup { v \in voices : v.stopAt = NoStop }

\* Time passes: to the deadline of a pending timeout, or, when no timeout is
\* waiting for its deadline or one is already late, by one TimeJump.
Advance ==
    /\ \E d \in { t.due : t \in timers } \cup
                 (IF \A t \in timers : t.due > 0 /\ timers # {} THEN {} ELSE { TimeJump }) :
          /\ d > 0
          /\ Elapse(d)
    /\ lastOp' = "time"
    /\ UNCHANGED << storeVars, editorVars, isPlaying, currentStep, timeoutId,
                    audioCtx, awaiting, historyVars >>

(***************************************************************************)
(* Selection editor.  The grid renders one button per step of the current   *)
(* layer and per pitch; hasNote, noteSelected and isDisabled are the values *)
(* the markup computed for the cell from the state the event arrives in.    *)
(***************************************************************************)
CellExists(stepIndex, pitchIndex) ==
    /\ HasCurrentLayer
    /\ stepIndex >= 0
    /\ stepIndex < Len(getCurrentLayer)
    /\ pitchIndex >= 0
    /\ pitchIndex < NUM_PITCHES

IsDisabled(pitchIndex) == (~allowNonScaleNotes) /\ ~isInScale(pitchIndex)

\* setCell(step, pitchIndex, state): the patterns it leaves
setCell(step, pitchIndex, state) ==
    IF (~allowNonScaleNotes) /\ ~isInScale(pitchIndex) THEN patterns
    ELSE IF ~HasCurrentLayer THEN patterns
    ELSE WithCurrentLayer(SetCellIn(getCurrentLayer, step, pitchIndex, state))

\* e is [ctrl, shift, alt]: ctrl stands for e.metaKey || e.ctrlKey
handleCellMousedown(stepIndex, pitchIndex, e) ==
    LET hasNote == HasNote(getCurrentLayer, stepIndex, pitchIndex)
        noteSelected == isNoteSelected(stepIndex, pitchIndex)
        cell == << stepIndex, pitchIndex >>
    IN  /\ CellExists(stepIndex, pitchIndex)
        /\ lastOp' = "mousedown"
        /\ UNCHANGED << sequence, selectedSequenceIndex, bpm, stepsPerBeat, key, scale,
                        allowNonScaleNotes, synths, selectedSynthIndex, transportVars,
                        historyVars >>
        /\ IF IsDisabled(pitchIndex)
           THEN UNCHANGED << patterns, editorVars >>
           ELSE IF e.ctrl
           THEN /\ selectionRectAnchor' = cell
                /\ selectionRectExtent' = cell
                /\ isSelectingRect' = TRUE
                /\ dragStartLayer' = NoLayer
                /\ UNCHANGED << patterns, isPainting, paintTargetState, selectedNotes,
                                isDragging, dragStartCell, dragStartNotes,
                                dragLastPositions, dragOverwrittenNotes, isCloning >>
           ELSE IF e.shift /\ hasNote
           THEN /\ selectedNotes' = IF cell \in selectedNotes
                                    THEN selectedNotes \ {cell}
                                    ELSE selectedNotes \cup {cell}
                /\ dragStartLayer' = NoLayer
                /\ UNCHANGED << patterns, isPainting, paintTargetState,
                                selectionRectAnchor, selectionRectExtent,
                                isSelectingRect, isDragging, dragStartCell,
                                dragStartNotes, dragLastPositions,
                                dragOverwrittenNotes, isCloning >>
           ELSE IF noteSelected /\ selectedNotes # {}
           THEN /\ selectedNotes' = {}
                /\ dragStartNotes' = getSelectedNotesArray
                /\ dragStartCell' = cell
                /\ dragLastPositions' = {}
                /\ dragOverwrittenNotes' = {}
                /\ isCloning' = e.alt
                /\ isDragging' = TRUE
                /\ dragStartLayer' = getCurrentLayer
                /\ UNCHANGED << patterns, isPainting, paintTargetState,
                                selectionRectAnchor, selectionRectExtent,
                                isSelectingRect >>
           ELSE /\ selectedNotes' = {}
                /\ paintTargetState' = ~hasNote
                /\ patterns' = setCell(stepIndex, pitchIndex, ~hasNote)
                /\ isPainting' = TRUE
                /\ dragStartLayer' = NoLayer
                /\ UNCHANGED << selectionRectAnchor, selectionRectExtent,
                                isSelectingRect, isDragging, dragStartCell,
                                dragStartNotes, dragLastPositions,
                                dragOverwrittenNotes, isCloning >>

\* a drag step that does not put back the notes its payload had covered
DragMoveNoRestore(layer, stepIndex, pitchIndex) ==
    LET deltaStep == stepIndex - dragStartCell[1]
        deltaPitch == pitchIndex - dragStartCell[2]
        cleared ==
            IF isCloning THEN ClearNotesIn(layer, dragLastPositions)
            ELSE IF dragLastPositions # {} THEN ClearNotesIn(layer, dragLastPositions)
            ELSE ClearNotesIn(layer, dragStartNotes)
        newLastPositions ==
            { c \in { << n[1] + deltaStep, n[2] + deltaPitch >> : n \in dragStartNotes } :
                InBounds(layer, c) }
        newOverwrittenNotes ==
            { c \in newLastPositions : HasNote(cleared, c[1], c[2]) }
    IN  [ layer |-> SetNotesIn(cleared, newLastPositions),
          last |-> newLastPositions,
          overwritten |-> newOverwrittenNotes ]

\* The drag branch of handleCellMouseenter: the layer it leaves and the two
\* arrays it stores, for the pointer on << stepIndex, pitchIndex >>.
DragMove(layer, stepIndex, pitchIndex) ==
    LET deltaStep == stepIndex - dragStartCell[1]
        deltaPitch == pitchIndex - dragStartCell[2]
        cleared ==
            IF isCloning THEN ClearNotesIn(layer, dragLastPositions)
            ELSE IF dragLastPositions # {} THEN ClearNotesIn(layer, dragLastPositions)
            ELSE ClearNotesIn(layer, dragStartNotes)
        restored == SetNotesIn(cleared, dragOverwrittenNotes)
        newLastPositions ==
            { c \in { << n[1] + deltaStep, n[2] + deltaPitch >> : n \in dragStartNotes } :
                InBounds(layer, c) }
        newOverwrittenNotes ==
            { c \in newLastPositions : HasNote(restored, c[1], c[2]) }
    IN  [ layer |-> SetNotesIn(restored, newLastPositions),
          last |-> newLastPositions,
          overwritten |-> newOverwrittenNotes ]

handleCellMouseenter(stepIndex, pitchIndex) ==
    /\ CellExists(stepIndex, pitchIndex)
    /\ lastOp' = "mouseenter"
    /\ UNCHANGED << sequence, selectedSequenceIndex, bpm, stepsPerBeat, key, scale,
                    allowNonScaleNotes, synths, selectedSynthIndex, transportVars,
                    historyVars, isPainting, paintTargetState, selectedNotes,
                    selectionRectAnchor, isSelectingRect, isDragging, dragStartCell,
                    dragStartNotes, isCloning, dragStartLayer >>
    /\ IF isSelectingRect
       THEN /\ selectionRectExtent' = << stepIndex, pitchIndex >>
            /\ UNCHANGED << patterns, dragLastPositions, dragOverwrittenNotes >>
       ELSE IF isDragging /\ dragStartCell # NullCell
       THEN LET r == DragMove(getCurrentLayer, stepIndex, pitchIndex)
            IN  /\ patterns' = WithCurrentLayer(r.layer)
                /\ dragLastPositions' = r.last
                /\ dragOverwrittenNotes' = r.overwritten
                /\ UNCHANGED selectionRectExtent
       ELSE IF isPainting /\ ~IsDisabled(pitchIndex)
       THEN /\ patterns' = setCell(stepIndex, pitchIndex, paintTargetState)
            /\ UNCHANGED << selectionRectExtent, dragLastPositions,
                            dragOverwrittenNotes >>
       ELSE UNCHANGED << patterns, selectionRectExtent, dragLastPositions,
                         dragOverwrittenNotes >>

\* a rectangle that takes the anchor for its low corner and the extent for its high one
getSelectionRectAnchorFirst ==
    [ minStep |-> selectionRectAnchor[1],
      maxStep |-> selectionRectExtent[1],
      minPitch |-> selectionRectAnchor[2],
      maxPitch |-> selectionRectExtent[2] ]

\* getSelectionRect() for a non-null anchor and extent
getSelectionRect ==
    [ minStep |-> Min(selectionRectAnchor[1], selectionRectExtent[1]),
      maxStep |-> Max(selectionRectAnchor[1], selectionRectExtent[1]),
      minPitch |-> Min(selectionRectAnchor[2], selectionRectExtent[2]),
      maxPitch |-> Max(selectionRectAnchor[2], selectionRectExtent[2]) ]

\* a rectangle that selects every cell it covers
addRectToSelection(rect) ==
    selectedNotes \cup
        ((rect.minStep .. rect.maxStep) \X (rect.minPitch .. rect.maxPitch))

\* addNotesInRectToSelection(rect): the selection it leaves
addNotesInRectToSelection(rect) ==
    IF ~HasCurrentLayer THEN selectedNotes
    ELSE selectedNotes \cup
            { c \in (rect.minStep .. rect.maxStep) \X (rect.minPitch .. rect.maxPitch) :
                HasNote(getCurrentLayer, c[1], c[2]) }

\* the window's mouseup handler
handleMouseup ==
    /\ lastOp' = "mouseup"
    /\ UNCHANGED << storeVars, transportVars, historyVars, paintTargetState,
                    dragStartNotes, dragLastPositions, dragOverwrittenNotes >>
    /\ IF isSelectingRect
       THEN /\ selectedNotes' =
                  IF selectionRectAnchor # NullCell /\ selectionRectExtent # NullCell
                  THEN addNotesInRectToSelection(getSelectionRect)
                  ELSE selectedNotes
            /\ selectionRectAnchor' = NullCell
            /\ selectionRectExtent' = NullCell
            /\ isSelectingRect' = FALSE
       ELSE UNCHANGED << selectedNotes, selectionRectAnchor, selectionRectExtent,
                         isSelectingRect >>
    /\ isPainting' = FALSE
    /\ isDragging' = FALSE
    /\ isCloning' = FALSE
    /\ dragStartCell' = NullCell
    /\ dragStartLayer' = NoLayer

\* a nudge that moves the selected notes that fit and leaves the others
moveThoseThatFit(layer, deltaStep, deltaPitch) ==
    LET notes == getSelectedNotesArray
        fits == { n \in notes : InBounds(layer, << n[1] + deltaStep, n[2] + deltaPitch >>) }
        moved == { << n[1] + deltaStep, n[2] + deltaPitch >> : n \in fits }
    IN  [ layer |-> SetNotesIn(ClearNotesIn(layer, fits), moved),
          selected |-> moved \cup (notes \ fits) ]

\* a nudge that writes the new cells first and clears the old cells after
moveWriteThenClear(layer, deltaStep, deltaPitch) ==
    LET notes == getSelectedNotesArray
        newPositions == { << n[1] + deltaStep, n[2] + deltaPitch >> : n \in notes }
        inBounds == \A c \in newPositions : InBounds(layer, c)
    IN  IF notes = {} \/ ~inBounds
        THEN [ layer |-> layer, selected |-> selectedNotes ]
        ELSE [ layer |-> ClearNotesIn(SetNotesIn(layer, newPositions), notes),
               selected |-> newPositions ]

\* moveSelectedNotes(deltaStep, deltaPitch): the layer and selection it leaves
moveSelectedNotes(layer, deltaStep, deltaPitch) ==
    LET notes == getSelectedNotesArray
        newPositions == { << n[1] + deltaStep, n[2] + deltaPitch >> : n \in notes }
        inBounds == \A c \in newPositions : InBounds(layer, c)
    IN  IF notes = {} \/ ~inBounds
        THEN [ layer |-> layer, selected |-> selectedNotes ]
        ELSE [ layer |-> SetNotesIn(ClearNotesIn(layer, notes), newPositions),
               selected |-> newPositions ]

editorFrame == << sequence, selectedSequenceIndex, bpm, stepsPerBeat, key, scale,
                  allowNonScaleNotes, synths, selectedSynthIndex, transportVars,
                  historyVars >>

\* keydown Delete / Backspace
KeyDelete ==
    /\ lastOp' = "delete"
    /\ dragStartLayer' = NoLayer
    /\ UNCHANGED << editorFrame, isPainting, paintTargetState, selectionRectAnchor,
                    selectionRectExtent, isSelectingRect, isDragging, dragStartCell,
                    dragStartNotes, dragLastPositions, dragOverwrittenNotes, isCloning >>
    /\ IF selectedNotes # {}
       THEN /\ patterns' = IF HasCurrentLayer
                           THEN WithCurrentLayer(
                                   ClearNotesIn(getCurrentLayer, getSelectedNotesArray))
                           ELSE patterns
            /\ selectedNotes' = {}
       ELSE UNCHANGED << patterns, selectedNotes >>

\* an Escape that empties the Selection and leaves the rectangle running
KeyEscapeKeepsRect ==
    /\ lastOp' = "escape"
    /\ dragStartLayer' = NoLayer
    /\ selectedNotes' = {}
    /\ UNCHANGED << editorFrame, patterns, isPainting, paintTargetState, isDragging,
                    dragStartCell, dragStartNotes, dragLastPositions,
                    dragOverwrittenNotes, isCloning, selectionRectAnchor,
                    selectionRectExtent, isSelectingRect >>

\* keydown Escape
KeyEscape ==
    /\ lastOp' = "escape"
    /\ dragStartLayer' = NoLayer
    /\ UNCHANGED << editorFrame, patterns, isPainting, paintTargetState, isDragging,
                    dragStartCell, dragStartNotes, dragLastPositions,
                    dragOverwrittenNotes, isCloning >>
    /\ IF selectedNotes # {} \/ isSelectingRect
       THEN /\ selectedNotes' = {}
            /\ selectionRectAnchor' = NullCell
            /\ selectionRectExtent' = NullCell
            /\ isSelectingRect' = FALSE
       ELSE UNCHANGED << selectedNotes, selectionRectAnchor, selectionRectExtent,
                         isSelectingRect >>

\* keydown ArrowUp / ArrowDown / ArrowLeft / ArrowRight
KeyArrow(arrow) ==
    LET deltaStep == IF arrow = "ArrowLeft" THEN -1
                     ELSE IF arrow = "ArrowRight" THEN 1 ELSE 0
        deltaPitch == IF arrow = "ArrowUp" THEN -1
                      ELSE IF arrow = "ArrowDown" THEN 1 ELSE 0
    IN  /\ selectedNotes # {}
        /\ lastOp' = "arrow"
        /\ dragStartLayer' = NoLayer
        /\ UNCHANGED << editorFrame, isPainting, paintTargetState,
                        selectionRectAnchor, selectionRectExtent, isSelectingRect,
                        isDragging, dragStartCell, dragStartNotes, dragLastPositions,
                        dragOverwrittenNotes, isCloning >>
        /\ IF HasCurrentLayer
           THEN LET r == moveSelectedNotes(getCurrentLayer, deltaStep, deltaPitch)
                IN  /\ patterns' = WithCurrentLayer(r.layer)
                    /\ selectedNotes' = r.selected
           ELSE UNCHANGED << patterns, selectedNotes >>

(***************************************************************************)
(* Controls: tempo, synth, scale, meter of the displayed pattern, Clear,    *)
(* and the sequence strip.                                                  *)
(***************************************************************************)
controlFrame == << editorVars, transportVars, lastPlayed, lastHow, startFirst,
                   startMoved, ticksSinceStart >>

\* a tempo field that arms the pending timeout again with the new delay
SetBpmRearms(value) ==
    /\ bpm' = value
    /\ lastOp' = "bpm"
    /\ timers' = { IF t.id = timeoutId
                   THEN [t EXCEPT !.due = CurrentTime +
                            TimeoutDelay(StepDuration(value, stepsPerBeat))]
                   ELSE t : t \in timers }
    /\ UNCHANGED << patterns, sequence, selectedSequenceIndex, stepsPerBeat, key, scale,
                    allowNonScaleNotes, synths, selectedSynthIndex, editorVars,
                    isPlaying, currentStep, timeoutId, activeNotes, voices, audioCtx,
                    awaiting, historyVars >>

\* bind:value={bpm}
SetBpm(value) ==
    /\ bpm' = value
    /\ lastOp' = "bpm"
    /\ UNCHANGED << patterns, sequence, selectedSequenceIndex, stepsPerBeat, key, scale,
                    allowNonScaleNotes, synths, selectedSynthIndex, controlFrame,
                    loopClean >>

\* blur / Enter on the BPM field
BlurBpm ==
    /\ bpm' = clampBpm(bpm)
    /\ lastOp' = "bpm"
    /\ UNCHANGED << patterns, sequence, selectedSequenceIndex, stepsPerBeat, key, scale,
                    allowNonScaleNotes, synths, selectedSynthIndex, controlFrame,
                    loopClean >>

\* bind:value={stepsPerBeat} (Grid steps/beat)
SetGridSteps(value) ==
    /\ stepsPerBeat' = value
    /\ lastOp' = "gridSteps"
    /\ UNCHANGED << patterns, sequence, selectedSequenceIndex, bpm, key, scale,
                    allowNonScaleNotes, synths, selectedSynthIndex, controlFrame,
                    loopClean >>

BlurGridSteps ==
    /\ stepsPerBeat' = Num(clampStepsPerBeat(stepsPerBeat))
    /\ lastOp' = "gridSteps"
    /\ UNCHANGED << patterns, sequence, selectedSequenceIndex, bpm, key, scale,
                    allowNonScaleNotes, synths, selectedSynthIndex, controlFrame,
                    loopClean >>

\* click on a synth button
SelectSynth(idx) ==
    /\ idx \in 0..(Len(synths) - 1)
    /\ selectedSynthIndex' = idx
    /\ selectedNotes' = {}
    /\ lastOp' = "synth"
    /\ dragStartLayer' = NoLayer
    /\ UNCHANGED << patterns, sequence, selectedSequenceIndex, bpm, stepsPerBeat, key,
                    scale, allowNonScaleNotes, synths, transportVars, historyVars,
                    isPainting, paintTargetState, selectionRectAnchor,
                    selectionRectExtent, isSelectingRect, isDragging, dragStartCell,
                    dragStartNotes, dragLastPositions, dragOverwrittenNotes, isCloning >>

\* bind:checked={synths[selectedSynthIndex].legatoSameNote}
ToggleLegato ==
    /\ synths' = [synths EXCEPT ![selectedSynthIndex + 1].legatoSameNote = ~@]
    /\ lastOp' = "legato"
    /\ UNCHANGED << patterns, sequence, selectedSequenceIndex, bpm, stepsPerBeat, key,
                    scale, allowNonScaleNotes, selectedSynthIndex, controlFrame,
                    loopClean >>

\* bind:value={key}, bind:value={scale}, bind:checked={allowNonScaleNotes}
SetKey(k) ==
    /\ key' = k
    /\ lastOp' = "key"
    /\ UNCHANGED << patterns, sequence, selectedSequenceIndex, bpm, stepsPerBeat, scale,
                    allowNonScaleNotes, synths, selectedSynthIndex, controlFrame,
                    loopClean >>

SetScale(sc) ==
    /\ scale' = sc
    /\ lastOp' = "scale"
    /\ UNCHANGED << patterns, sequence, selectedSequenceIndex, bpm, stepsPerBeat, key,
                    allowNonScaleNotes, synths, selectedSynthIndex, controlFrame,
                    loopClean >>

ToggleAllowNonScale ==
    /\ allowNonScaleNotes' = ~allowNonScaleNotes
    /\ lastOp' = "allowNonScale"
    /\ UNCHANGED << patterns, sequence, selectedSequenceIndex, bpm, stepsPerBeat, key,
                    scale, synths, selectedSynthIndex, controlFrame, loopClean >>

meterFrame == << sequence, selectedSequenceIndex, bpm, stepsPerBeat, key, scale,
                 allowNonScaleNotes, synths, selectedSynthIndex, controlFrame >>

\* bind:value={displayedPattern.beatsPerMeasure}
SetBeats(value) ==
    /\ displayedPattern # 0
    /\ patterns' = ResizeEffect(
                      [patterns EXCEPT ![displayedPattern].beatsPerMeasure = value])
    /\ loopClean' = FALSE
    /\ lastOp' = "beats"
    /\ UNCHANGED meterFrame

\* blur / Enter on Beats / bar
BlurBeats ==
    /\ displayedPattern # 0
    /\ patterns' = ResizeEffect(
                      [patterns EXCEPT ![displayedPattern].beatsPerMeasure =
                          Num(clampBeatsPerMeasure(@))])
    /\ loopClean' = FALSE
    /\ lastOp' = "beats"
    /\ UNCHANGED meterFrame

\* bind:value={displayedPattern.stepsPerBeat}
SetPatternSteps(value) ==
    /\ displayedPattern # 0
    /\ patterns' = ResizeEffect(
                      [patterns EXCEPT ![displayedPattern].stepsPerBeat = value])
    /\ loopClean' = FALSE
    /\ lastOp' = "steps"
    /\ UNCHANGED meterFrame

\* blur / Enter on Steps / beat
BlurPatternSteps ==
    /\ displayedPattern # 0
    /\ patterns' = ResizeEffect(
                      [patterns EXCEPT ![displayedPattern].stepsPerBeat =
                          Num(clampStepsPerBeat(@))])
    /\ loopClean' = FALSE
    /\ lastOp' = "steps"
    /\ UNCHANGED meterFrame

\* a Clear that rebuilds the pattern under the next id
clearPatternReIds ==
    /\ lastOp' = "clear"
    /\ UNCHANGED << meterFrame, loopClean >>
    /\ IF displayedPattern = 0
       THEN UNCHANGED patterns
       ELSE patterns' = ResizeEffect(
                [patterns EXCEPT ![displayedPattern] =
                    createPattern(displayedPatternId + 1, @.beatsPerMeasure, @.stepsPerBeat)])

\* clearPattern()
clearPattern ==
    /\ lastOp' = "clear"
    /\ UNCHANGED << meterFrame, loopClean >>
    /\ IF displayedPattern = 0
       THEN UNCHANGED patterns
       ELSE patterns' = ResizeEffect(
                [patterns EXCEPT ![displayedPattern] =
                    createPattern(displayedPatternId, @.beatsPerMeasure, @.stepsPerBeat)])

sequenceFrame == << patterns, bpm, stepsPerBeat, key, scale, allowNonScaleNotes,
                    synths, selectedSynthIndex, controlFrame >>

\* click / Enter / Space on a sequence cell
SelectSequenceIndex(seqIndex) ==
    /\ seqIndex \in 0..(Len(sequence) - 1)
    /\ selectedSequenceIndex' = seqIndex
    /\ lastOp' = "select"
    /\ UNCHANGED << sequenceFrame, sequence, loopClean >>

\* a next id that steps out of the pool instead of wrapping
nextIdUnwrapped(currentId, direction) == currentId + direction

nextId(currentId, direction) ==
    JsMod(currentId - MIN_PATTERN_ID + direction + MAX_PATTERNS, MAX_PATTERNS)
        + MIN_PATTERN_ID

cyclePatternAtPosition(seqIndex, direction) ==
    /\ lastOp' = "cycle"
    /\ UNCHANGED sequenceFrame
    /\ IF seqIndex >= Len(sequence)
       THEN UNCHANGED << sequence, selectedSequenceIndex, loopClean >>
       ELSE LET currentId == sequence[seqIndex + 1]
            IN  /\ sequence' = [sequence EXCEPT
                                    ![seqIndex + 1] = nextId(currentId, direction)]
                /\ selectedSequenceIndex' = seqIndex
                /\ loopClean' = FALSE

\* a move that carries the entry round the end of the strip at a boundary
moveAround(seqIndex, direction) ==
    LET other == (seqIndex + direction) % Len(sequence)
    IN  /\ lastOp' = "move"
        /\ UNCHANGED sequenceFrame
        /\ sequence' = [sequence EXCEPT ![seqIndex + 1] = sequence[other + 1],
                                        ![other + 1] = sequence[seqIndex + 1]]
        /\ selectedSequenceIndex' = other
        /\ loopClean' = FALSE

movePatternInSequence(seqIndex, direction) ==
    /\ lastOp' = "move"
    /\ UNCHANGED sequenceFrame
    /\ IF (direction = -1 /\ seqIndex = 0)
          \/ (direction = 1 /\ seqIndex >= Len(sequence) - 1)
       THEN UNCHANGED << sequence, selectedSequenceIndex, loopClean >>
       ELSE LET other == seqIndex + direction
            IN  /\ sequence' = [sequence EXCEPT ![seqIndex + 1] = sequence[other + 1],
                                                ![other + 1] = sequence[seqIndex + 1]]
                /\ selectedSequenceIndex' = other
                /\ loopClean' = FALSE

\* the + button, rendered while sequence.length < MAX_MEASURES
AddToSequence ==
    /\ Len(sequence) < MAX_MEASURES
    /\ sequence' = Append(sequence, selectedPatternId)
    /\ loopClean' = FALSE
    /\ lastOp' = "add"
    /\ UNCHANGED << sequenceFrame, selectedSequenceIndex >>

\* a - button that is rendered for every sequence
RemoveAlways ==
    /\ Len(sequence) > 0
    /\ sequence' = SubSeq(sequence, 1, Len(sequence) - 1)
    /\ selectedSequenceIndex' =
          IF selectedSequenceIndex >= Len(sequence')
          THEN Max(Len(sequence') - 1, 0)
          ELSE selectedSequenceIndex
    /\ loopClean' = FALSE
    /\ lastOp' = "remove"
    /\ UNCHANGED sequenceFrame

\* a - button that leaves the selected cell where it was
RemoveLastNoClamp ==
    /\ Len(sequence) > 1
    /\ sequence' = SubSeq(sequence, 1, Len(sequence) - 1)
    /\ selectedSequenceIndex' = selectedSequenceIndex
    /\ loopClean' = FALSE
    /\ lastOp' = "remove"
    /\ UNCHANGED sequenceFrame

\* the - button, rendered while sequence.length > 1
RemoveLast ==
    /\ Len(sequence) > 1
    /\ sequence' = SubSeq(sequence, 1, Len(sequence) - 1)
    /\ selectedSequenceIndex' =
          IF selectedSequenceIndex >= Len(sequence')
          THEN Max(Len(sequence') - 1, 0)
          ELSE selectedSequenceIndex
    /\ loopClean' = FALSE
    /\ lastOp' = "remove"
    /\ UNCHANGED sequenceFrame

(***************************************************************************)
(* Specifications.  An edit of the configuration or of the grid counts      *)
(* against the budget MaxEdits; the transport and the clock do not.         *)
(***************************************************************************)
Edit(A) == edits < MaxEdits /\ A /\ edits' = edits + 1
Free(A) == A /\ UNCHANGED edits
\* an edit made while the song is set up, before start() is first called
Setup(A) == audioCtx = "none" /\ Edit(A)

NoMods == [ctrl |-> FALSE, shift |-> FALSE, alt |-> FALSE]

\* The transport: start(), the settling of ctx.resume(), the timeouts, stop()
\* and the clock.
Transport ==
    \/ Free(Start)
    \/ Free(ResumeDone)
    \/ \E t \in timers : Free(startPlayingStepsUsingTimeout(t))
    \/ Free(Stop)
    \/ Free(Advance)

\* Playback of a song set up by a few edits: a note painted on the first
\* step, legato switched, the pattern shortened, the sequence grown, and
\* the sequence cell to start from picked at any time.
Next ==
    \/ Transport
    \/ Setup(handleCellMousedown(0, 0, NoMods))
    \/ Setup(ToggleLegato)
    \/ Setup(SetBeats(Num(1)))
    \/ Setup(AddToSequence)
    \/ \E i \in 0..(MaxSeqLen - 1) : Edit(SelectSequenceIndex(i))

Spec == Init /\ [][Next]_vars

\* Playback while the first steps are painted and legato is switched on and
\* off: the voices and the registry.
NextVoices ==
    \/ Transport
    \/ \E s \in 0..MaxStepIn : Edit(handleCellMousedown(s, 0, NoMods))
    \/ Edit(ToggleLegato)

SpecVoices == Init /\ [][NextVoices]_vars

\* The values typed into the two meter fields of the displayed pattern:
\* in range, below and above it, fractional, and not a number.
MeterInputs == { Num(0), Num(2), Num(3), Num(20), Half(3), NaN }

\* The steps painted before the meter is changed
ResizeSteps == { 0, 5 }

\* The meter of the displayed pattern is typed and committed while two of its
\* steps are painted and cleared.
NextResize ==
    \/ \E v \in MeterInputs : Free(SetBeats(v))
    \/ \E v \in MeterInputs : Free(SetPatternSteps(v))
    \/ Free(BlurBeats)
    \/ Free(BlurPatternSteps)
    \/ \E s \in ResizeSteps : Free(handleCellMousedown(s, 0, NoMods))

SpecResize == Init /\ [][NextResize]_vars

Event(A) == edits < MaxOps /\ A /\ edits' = edits + 1

Modifiers ==
    { [ctrl |-> c, shift |-> sh, alt |-> FALSE] :
        c \in BOOLEAN, sh \in { FALSE } } \cup
    { [ctrl |-> FALSE, shift |-> sh, alt |-> a] :
        sh \in BOOLEAN, a \in BOOLEAN }

Cells == (0..MaxStepIn) \X (0..MaxPitchIn)

Arrows == { "ArrowUp", "ArrowDown", "ArrowLeft", "ArrowRight" }

\* An editing session of MaxOps events: meter edits, Clear, painting,
\* selecting, dragging, nudging, deleting, and playback.
NextEdit ==
    \/ \E c \in Cells, e \in Modifiers : Event(handleCellMousedown(c[1], c[2], e))
    \/ \E c \in Cells : Event(handleCellMouseenter(c[1], c[2]))
    \/ Event(handleMouseup)
    \/ \E arrow \in Arrows : Event(KeyArrow(arrow))
    \/ Event(KeyDelete)
    \/ Event(SetBeats(Num(2)))
    \/ Event(SetPatternSteps(NaN))
    \/ Event(BlurPatternSteps)
    \/ Event(clearPattern)
    \/ Event(Start)
    \/ Event(ResumeDone)
    \/ \E t \in timers : Event(startPlayingStepsUsingTimeout(t))
    \/ Event(Stop)
    \/ Event(Advance)

SpecEdit == Init /\ [][NextEdit]_vars

Directions == { 1, -1 }

\* The sequence strip: cells are added and removed freely; the arrows of a
\* cell cycle and move it, a cell is picked, and the displayed pattern is
\* shortened to two beats.  cyclePatternAtPosition is also called for the
\* position one past the last cell.
NextSequence ==
    \/ Free(AddToSequence)
    \/ Free(RemoveLast)
    \/ \E i \in 0..MAX_MEASURES, d \in Directions :
          i <= Len(sequence) /\ Edit(cyclePatternAtPosition(i, d))
    \/ \E i \in 0..(MAX_MEASURES - 1), d \in Directions :
          i < Len(sequence) /\ Edit(movePatternInSequence(i, d))
    \/ \E i \in 0..(MAX_MEASURES - 1) : Edit(SelectSequenceIndex(i))
    \/ Edit(SetBeats(Num(2)))

SpecSequence == Init /\ [][NextSequence]_vars

\* A short sequence of patterns of several lengths: up to MaxLookupLen cells,
\* cycled and picked, the displayed pattern cut to two beats or left with a
\* steps-per-beat field that is not a number.
NextLookup ==
    \/ Len(sequence) < MaxLookupLen /\ Free(AddToSequence)
    \/ Free(RemoveLast)
    \/ \E i \in 0..(MaxLookupLen - 1), d \in Directions :
          i < Len(sequence) /\ Edit(cyclePatternAtPosition(i, d))
    \/ \E i \in 0..(MaxLookupLen - 1) : Edit(SelectSequenceIndex(i))
    \/ Edit(SetBeats(Num(2)))
    \/ Edit(SetPatternSteps(NaN))

SpecLookup == Init /\ [][NextLookup]_vars

\* Playback of a sequence that grows and shrinks under the playhead.
NextShrink ==
    \/ Transport
    \/ Setup(handleCellMousedown(0, 0, NoMods))
    \/ Edit(AddToSequence)
    \/ Edit(RemoveLast)
    \/ \E i \in 0..(MaxSeqLen - 1) : Edit(SelectSequenceIndex(i))

SpecShrink == Init /\ [][NextShrink]_vars

ShiftOnly == [ctrl |-> FALSE, shift |-> TRUE, alt |-> FALSE]
AltOnly == [ctrl |-> FALSE, shift |-> FALSE, alt |-> TRUE]

DragEvent(A) == edits < MaxDragOps /\ A /\ edits' = edits + 1

\* Drags with one pointer button: notes are painted and shift-selected, the
\* pattern is cleared, and a drag, plain or with alt, is followed from its
\* pointer-down over the cells the pointer enters to its pointer-up.
NextDrag ==
    \/ \E c \in Cells, e \in { NoMods, ShiftOnly, AltOnly } :
          ~isDragging /\ DragEvent(handleCellMousedown(c[1], c[2], e))
    \/ \E c \in Cells : DragEvent(handleCellMouseenter(c[1], c[2]))
    \/ DragEvent(handleMouseup)
    \/ ~isDragging /\ DragEvent(clearPattern)

SpecDrag == Init /\ [][NextDrag]_vars

\* The cells of the first step at the pitches A# and G#, which are in C
\* natural minor, and at B, which is not
LockCells == { << 0, 0 >>, << 0, 1 >>, << 0, 3 >> }

LockEvent(A) == edits < MaxLockOps /\ A /\ edits' = edits + 1

\* Editing under the scale lock: the lock is switched, cells are clicked
\* plain, with shift and with alt, and the pointer enters the cells whose
\* button is enabled.
NextLock ==
    \/ LockEvent(ToggleAllowNonScale)
    \/ \E c \in LockCells, e \in { NoMods, ShiftOnly, AltOnly } :
          LockEvent(handleCellMousedown(c[1], c[2], e))
    \/ \E c \in LockCells :
          ~IsDisabled(c[2]) /\ LockEvent(handleCellMouseenter(c[1], c[2]))
    \/ LockEvent(handleMouseup)

SpecLock == Init /\ [][NextLock]_vars

(***************************************************************************)
(* Transport properties.                                                    *)
(***************************************************************************)
DispatchOps == { "start", "resumed", "tick" }

KeyOf(call) == << call.synth.id, call.midiNote >>

\* C1: in every reachable state at most one scheduler timeout is pending,
\* whatever the interleaving of start(), stop(), the timer ticks and the
\* settling of start()'s await of ctx.resume().
C1_AtMostOneTimeout == Cardinality(timers) <= 1

\* C2: a stop() called while playing leaves the transport stopped, no
\* scheduler timeout pending, every oscillator the registry tracked stopped,
\* and the registry empty.
C2_StopLeavesNothing ==
    [][ (lastOp' = "stop" /\ isPlaying) =>
            /\ ~isPlaying'
            /\ timers' = {}
            /\ activeNotes' = << >>
            /\ \A k \in DOMAIN activeNotes :
                  \A v \in voices' : v.id # activeNotes[k].voice ]_vars

\* C3 as the spec words it: N ticks after a fresh start(), with no stop()
\* and no change of the sequence or of a meter, currentStep is
\* N mod totalSteps(), for every selectedSequenceIndex.
C3_StepIsTicksModTotal ==
    loopClean => currentStep = ticksSinceStart % TotalStepsOf(patterns, sequence)

\* C3, amended: N ticks after a fresh start(), with no stop() and no change of
\* the sequence or of a meter, currentStep is (F + N) mod totalSteps(), F
\* being the first step of the sequence cell that was selected at start().
C3_StepIsFirstPlusTicks ==
    loopClean =>
        currentStep = (startFirst + ticksSinceStart) % TotalStepsOf(patterns, sequence)

\* the playhead started from a later sequence cell and has wrapped round
C3_Wrapped ==
    /\ loopClean
    /\ isPlaying
    /\ startFirst > 0
    /\ ticksSinceStart > 0
    /\ currentStep < startFirst

\* start() runs to its end: at once from Stopped when the context runs, or
\* when its await settles
StartCompletes ==
    \/ lastOp' = "start" /\ ~isPlaying /\ awaiting' = awaiting
    \/ lastOp' = "resumed"

\* C4: start() from Stopped sets currentStep to the first step of the
\* selected sequence cell and dispatches the notes of that step, before the
\* timeout it arms can tick; so does a start() that follows a stop(),
\* wherever the playhead was left.
C4_StartPlaysFirstStep ==
    [][ StartCompletes =>
            LET first == StepForSequenceIndex(patterns, sequence, selectedSequenceIndex)
            IN  /\ currentStep' = first
                /\ lastPlayed' = PlayStepCalls(patterns, sequence, synths,
                                               stepDurationSeconds, CurrentTime, first)
                /\ \A i \in DOMAIN lastPlayed' :
                      \E v \in voices' : /\ v.synthId = lastPlayed'[i].synth.id
                                         /\ v.midiNote = lastPlayed'[i].midiNote
                /\ ticksSinceStart' = 0
                /\ \E t \in timers' : t.id = timeoutId' /\ t.due > 0 ]_vars

\* a start() after a stop() has moved the playhead back to a later sequence
\* cell's first step and played the note painted there
C4_Restarted ==
    /\ lastOp = "start"
    /\ isPlaying
    /\ startMoved
    /\ startFirst > 0
    /\ currentStep = startFirst
    /\ ticksSinceStart = 0
    /\ lastPlayed # << >>

\* C5: start() while playing and stop() while stopped change nothing:
\* isPlaying, currentStep, the pending timeout, the registry and the pattern
\* data stay as they are and no note is dispatched.
C5_RedundantCallsAreNoOps ==
    [][ ((lastOp' = "start" /\ isPlaying) \/ (lastOp' = "stop" /\ ~isPlaying)) =>
            UNCHANGED << isPlaying, currentStep, timeoutId, timers, activeNotes,
                         patterns, voices, lastPlayed, lastHow >> ]_vars

\* start() was clicked in the middle of playback
C5_StartWhilePlaying ==
    /\ lastOp = "start"
    /\ isPlaying
    /\ ticksSinceStart > 0
    /\ timers # {}
    /\ voices # {}

(***************************************************************************)
(* Voice properties.                                                        *)
(***************************************************************************)
\* the oscillators of a key that nobody has called stop() on
Sustained(vs, k) ==
    { v \in vs : v.synthId = k[1] /\ v.midiNote = k[2] /\ v.stopAt = NoStop }

\* C6: when a legato synth is dispatched a key whose earlier dispatch has not
\* reached its scheduled release, the registry holds one entry for the key
\* and the key has exactly one oscillator that was not stopped, the entry's,
\* whether the dispatch re-envelopes the voice or replaces it.
C6_LegatoKeepsOneVoice ==
    [][ lastOp' \in DispatchOps =>
            \A i \in DOMAIN lastPlayed' :
                LET call == lastPlayed'[i]
                    k == KeyOf(call)
                IN  ( /\ call.synth.legatoSameNote
                      /\ k \in DOMAIN activeNotes
                      /\ CurrentTime < activeNotes[k].releaseAt )
                    => /\ k \in DOMAIN activeNotes'
                       /\ Cardinality(Sustained(voices', k)) = 1
                       /\ \A v \in Sustained(voices', k) :
                             v.id = activeNotes'[k].voice ]_vars

\* a legato dispatch replaced a voice that had not reached its release
C6_ReplacedBeforeRelease ==
    /\ lastOp \in DispatchOps
    /\ \E i \in DOMAIN lastHow :
          /\ lastHow[i].branch = "replace"
          /\ lastHow[i].early
          /\ lastPlayed[i].synth.legatoSameNote

\* C7: a dispatch for a synth whose legato flag is off never creates,
\* updates or removes a registry entry: an entry appears, changes or goes in
\* a dispatch only for a key that the dispatch played with legato on.
C7_OnlyLegatoWritesRegistry ==
    [][ (lastOp' \in DispatchOps /\ lastPlayed' # << >>) =>
            \A k \in DOMAIN activeNotes \cup DOMAIN activeNotes' :
                ( \/ k \notin DOMAIN activeNotes
                  \/ k \notin DOMAIN activeNotes'
                  \/ activeNotes'[k] # activeNotes[k] )
                => \E i \in DOMAIN lastPlayed' :
                      /\ KeyOf(lastPlayed'[i]) = k
                      /\ lastPlayed'[i].synth.legatoSameNote ]_vars

\* a note was dispatched with legato off while the registry held an entry
C7_PlainDispatchBesideEntry ==
    /\ lastOp \in DispatchOps
    /\ activeNotes # << >>
    /\ \E i \in DOMAIN lastPlayed : ~lastPlayed[i].synth.legatoSameNote

\* C8: a registry entry is removed when its voice reaches its scheduled
\* release or when the transport stops: no entry stays in the registry after
\* its release time has passed.
C8_NoEntryPastRelease ==
    \A k \in DOMAIN activeNotes : activeNotes[k].releaseAt >= CurrentTime

(***************************************************************************)
(* Pattern size properties.                                                 *)
(***************************************************************************)
\* clamp(v, lo, hi) of a meter value: the integer part of v brought into
\* lo..hi, and lo for a value that is not a finite number
Clamped(v, lo, hi) ==
    IF v.kind = "nan" THEN lo ELSE Max(lo, Min(hi, Trunc(v)))

\* the step count the meter of a pattern asks for
MeterSteps(pattern) ==
    Clamped(pattern.beatsPerMeasure, MIN_BEATS_PER_MEASURE, MAX_BEATS_PER_MEASURE)
        * Clamped(pattern.stepsPerBeat, MIN_STEPS_PER_BEAT, MAX_STEPS_PER_BEAT)

\* C9: once a pattern's meter is set to (b, s) and the resize has run, every
\* layer of the pattern is clamp(b,1,16) * clamp(s,1,16) steps long, with
\* no further cap; the steps below both the old and the new length keep
\* their notes exactly, and every appended step is entirely inactive.
C9_ResizeToClampedProduct ==
    [][ lastOp' \in { "beats", "steps" } =>
            \A i \in DOMAIN patterns' : \A l \in DOMAIN patterns'[i].layers :
                LET old == patterns[i].layers[l]
                    new == patterns'[i].layers[l]
                IN  /\ Len(new) = MeterSteps(patterns'[i])
                    /\ \A j \in 1..Min(Len(old), Len(new)) : new[j] = old[j]
                    /\ \A j \in (Len(old) + 1)..Len(new) : new[j] = EmptyStep ]_vars

\* beats 3 with steps per beat typed as 20: 48 steps, more than MAX_STEPS,
\* and the note painted on the first step is still there
C9_FortyEightSteps ==
    /\ lastOp = "steps"
    /\ patterns[1].beatsPerMeasure = Num(3)
    /\ patterns[1].stepsPerBeat = Num(20)
    /\ \A l \in DOMAIN patterns[1].layers : Len(patterns[1].layers[l]) = 48
    /\ 48 > MAX_STEPS
    /\ HasNote(patterns[1].layers[1], 0, 0)

\* C10: in every state reached through meter edits, Clear, painting,
\* dragging, nudging and playback, all layers of each pattern have the same
\* length, clamp(beatsPerMeasure) * clamp(stepsPerBeat) of that pattern.
C10_LayersMatchMeter ==
    \A i \in DOMAIN patterns : \A l \in DOMAIN patterns[i].layers :
        Len(patterns[i].layers[l]) = MeterSteps(patterns[i])

\* a note was nudged down to a pitch no click of the session reaches, in a
\* pattern whose meter was edited before
C10_NudgedAfterMeterEdit ==
    /\ lastOp = "arrow"
    /\ MeterSteps(patterns[1]) # DEFAULT_BEATS * DEFAULT_STEPS_PER_BEAT
    /\ \E s \in 0..MaxStepIn : HasNote(patterns[1].layers[1], s, MaxPitchIn + 1)

(***************************************************************************)
(* Sequence properties.                                                     *)
(***************************************************************************)
\* C11: for every global step g with 0 <= g < totalSteps(),
\* getPatternAtStep(g) returns a sequence index i, the pattern id
\* sequence[i] and a local step l with getStepForSequenceIndex(i) + l = g
\* and 0 <= l < stepsPerPattern(sequence[i]); totalSteps() is at least 1.
C11_LookupInvertsFirstStep ==
    /\ totalSteps >= 1
    /\ \A g \in 0..(totalSteps - 1) :
          LET at == getPatternAtStep(g)
          IN  /\ at # NotFound
              /\ at.patternIndex \in 0..(Len(sequence) - 1)
              /\ at.patternId = sequence[at.patternIndex + 1]
              /\ getStepForSequenceIndex(at.patternIndex) + at.stepInPattern = g
              /\ at.stepInPattern >= 0
              /\ at.stepInPattern < stepsPerPattern(at.patternId)

\* patterns of 8, 16 and 8 steps in a row: 32 steps in all, the third cell
\* starts at step 24, and step 24 is its local step 0
C11_EightSixteenEight ==
    /\ Len(sequence) = 3
    /\ << stepsPerPattern(sequence[1]), stepsPerPattern(sequence[2]),
          stepsPerPattern(sequence[3]) >> = << 8, 16, 8 >>
    /\ totalSteps = 32
    /\ getStepForSequenceIndex(2) = 24
    /\ getPatternAtStep(24) =
          [patternIndex |-> 2, stepInPattern |-> 0, patternId |-> sequence[3]]

\* start() has run to its end, or a timeout has ticked while playing
Dispatches ==
    \/ StartCompletes
    \/ lastOp' = "tick" /\ isPlaying

\* C12: a global step at or past totalSteps() resolves to the not-found
\* result and playStep dispatches no note for it; every start() and tick
\* dispatches exactly what playStep yields for the step it moved to, arms
\* its timeout again and leaves the transport playing as it was.
C12_MissDispatchesNothing ==
    /\ [](\A g \in totalSteps..(totalSteps + MaxBeyond) :
            /\ getPatternAtStep(g) = NotFound
            /\ PlayStepCalls(patterns, sequence, synths, stepDurationSeconds,
                             CurrentTime, g) = << >>)
    /\ [][ Dispatches =>
            /\ lastPlayed' = PlayStepCalls(patterns, sequence, synths,
                                           stepDurationSeconds, CurrentTime,
                                           currentStep')
            /\ \E t \in timers' : t.id = timeoutId'
            /\ isPlaying' = (isPlaying \/ lastOp' = "start") ]_vars

\* the last cell was removed under the playhead: currentStep is past the
\* end, its lookup misses, and the grid falls back to the selected cell
C12_PlayheadPastEnd ==
    /\ lastOp = "remove"
    /\ isPlaying
    /\ currentStep >= totalSteps
    /\ getPatternAtStep(currentStep) = NotFound
    /\ displayedPatternId = selectedPatternId

\* C13: cyclePatternAtPosition(i, d) with 0 <= i < sequence length and d
\* +1 or -1 replaces sequence[i] by (sequence[i] + d) mod 8 and leaves the
\* length and every other entry as they are; with i >= length it changes
\* nothing.
C13_CycleWrapsInPool ==
    [][ \A i \in 0..MAX_MEASURES, d \in Directions :
            cyclePatternAtPosition(i, d) =>
                IF i < Len(sequence)
                THEN /\ Len(sequence') = Len(sequence)
                     /\ sequence'[i + 1] = (sequence[i + 1] + d) % 8
                     /\ \A j \in DOMAIN sequence :
                           j # i + 1 => sequence'[j] = sequence[j]
                ELSE UNCHANGED << storeVars, editorVars, transportVars >> ]_vars

\* a cell was cycled down from the first pattern of the pool to the last
C13_CycledToLast ==
    /\ lastOp = "cycle"
    /\ \E j \in DOMAIN sequence :
          sequence[j] = MAX_PATTERNS - 1 /\ selectedSequenceIndex = j - 1

\* C14: movePatternInSequence(i, d) swaps the entries at i and i + d and
\* changes no other entry and not the length; with d = -1 at i = 0, or
\* d = +1 at the last position, the sequence and selectedSequenceIndex stay
\* as they are.
C14_MoveSwapsNeighbours ==
    [][ \A i \in 0..(MAX_MEASURES - 1), d \in Directions :
            (i < Len(sequence) /\ movePatternInSequence(i, d)) =>
                IF (d = -1 /\ i = 0) \/ (d = 1 /\ i = Len(sequence) - 1)
                THEN UNCHANGED << sequence, selectedSequenceIndex >>
                ELSE /\ Len(sequence') = Len(sequence)
                     /\ sequence'[i + 1] = sequence[i + d + 1]
                     /\ sequence'[i + d + 1] = sequence[i + 1]
                     /\ \A j \in DOMAIN sequence :
                           (j # i + 1 /\ j # i + d + 1) => sequence'[j] = sequence[j] ]_vars

\* a cell that was cycled to another pattern was moved one place to the left
C14_MovedLeft ==
    /\ lastOp = "move"
    /\ Len(sequence) >= 3
    /\ sequence[1] # sequence[2]
    /\ sequence[2] = sequence[3]
    /\ selectedSequenceIndex = 0

\* C15: in every reachable state the sequence has between 1 and 8 entries
\* and every entry is the id of a pattern of the pool, 0..7, under any
\* succession of add, remove-last, cycle and move.
C15_SequenceInPool ==
    /\ Len(sequence) >= 1
    /\ Len(sequence) <= 8
    /\ \A j \in DOMAIN sequence :
          /\ sequence[j] \in 0..7
          /\ FindPattern(patterns, sequence[j]) # 0

\* the strip is full, and its last cell was cycled round to the last pattern
C15_FullStrip ==
    /\ Len(sequence) = MAX_MEASURES
    /\ sequence[MAX_MEASURES] = MAX_PATTERNS - 1
    /\ sequence[1] = MIN_PATTERN_ID

(***************************************************************************)
(* Editor properties.                                                       *)
(***************************************************************************)
\* the pointer comes back to the cell the drag began on, nothing but the
\* pointer having moved since
BackOnAnchor ==
    /\ isDragging
    /\ dragStartCell # NullCell
    /\ ~isSelectingRect
    /\ dragStartLayer # NoLayer
    /\ handleCellMouseenter(dragStartCell[1], dragStartCell[2])

\* C16: a drag of the Selection, plain or cloning, whose pointer path ends
\* on the cell the drag began on leaves the grid as it was before the drag.
C16_ZeroNetDragKeepsGrid ==
    [][ BackOnAnchor => getCurrentLayer' = dragStartLayer ]_vars

\* C16 for a Selection whose every cell holds a note when the drag begins
C16_ZeroNetDragOfNotesKeepsGrid ==
    [][ (BackOnAnchor /\ \A n \in dragStartNotes :
                            HasNote(dragStartLayer, n[1], n[2]))
            => getCurrentLayer' = dragStartLayer ]_vars

\* the unit offset of an arrow key
ArrowDelta(arrow) ==
    << IF arrow = "ArrowLeft" THEN -1 ELSE IF arrow = "ArrowRight" THEN 1 ELSE 0,
       IF arrow = "ArrowUp" THEN -1 ELSE IF arrow = "ArrowDown" THEN 1 ELSE 0 >>

\* translating the selected coordinate n by d leaves the grid
LeavesGrid(n, d) ==
    \/ n[1] + d[1] < 0
    \/ n[1] + d[1] >= Len(getCurrentLayer)
    \/ n[2] + d[2] < 0
    \/ n[2] + d[2] >= 72

\* C17: an arrow key whose unit offset would take any selected coordinate
\* out of the grid changes neither the grid nor the Selection.
C17_NudgeIsAtomic ==
    [][ \A arrow \in Arrows :
            ( /\ HasCurrentLayer
              /\ KeyArrow(arrow)
              /\ \E n \in selectedNotes : LeavesGrid(n, ArrowDelta(arrow)) )
            => UNCHANGED << patterns, selectedNotes >> ]_vars

\* an arrow key was refused for the selected note in the top left corner
\* while the other selected note had room to move
C17_RefusedAtCorner ==
    /\ lastOp = "arrow"
    /\ selectedNotes = { << 0, 0 >>, << 1, 1 >> }
    /\ \A n \in selectedNotes : HasNote(getCurrentLayer, n[1], n[2])

\* C18: every coordinate an operation adds to the Selection is a cell that
\* holds a note in the displayed layer when it is added.
C18_OnlyNotesJoinSelection ==
    [][ \A c \in selectedNotes' \ selectedNotes :
            HasCurrentLayer' /\ HasNote(getCurrentLayer', c[1], c[2]) ]_vars

\* a selected note was nudged down to a pitch no click of the session
\* reaches: the Selection holds its new cell, and the note is there
C18_NudgedNoteIsSelected ==
    /\ lastOp = "arrow"
    /\ \E c \in selectedNotes :
          /\ c[2] = MaxPitchIn + 1
          /\ HasNote(getCurrentLayer, c[1], c[2])

\* C19: while non-scale notes are not allowed, no pointer-down and no
\* pointer move, painting or dragging, plain or cloning, activates a cell
\* at an out-of-scale pitch.
C19_LockedCellsStayInactive ==
    [][ (~allowNonScaleNotes /\ lastOp' \in { "mousedown", "mouseenter" }) =>
            \A st \in 0..(Len(getCurrentLayer) - 1), p \in 0..(NUM_PITCHES - 1) :
                (~isInScale(p) /\ ~HasNote(getCurrentLayer, st, p))
                    => ~HasNote(getCurrentLayer', st, p) ]_vars

\* C20: while non-scale notes are not allowed, a pointer-down with shift on
\* a cell at an out-of-scale pitch that holds a note toggles the cell's
\* membership in the Selection.
C20_LockedNoteIsSelectable ==
    [][ \A c \in LockCells :
            ( /\ ~allowNonScaleNotes
              /\ ~isInScale(c[2])
              /\ HasNote(getCurrentLayer, c[1], c[2])
              /\ handleCellMousedown(c[1], c[2], ShiftOnly) )
            => selectedNotes' = IF c \in selectedNotes
                                THEN selectedNotes \ {c}
                                ELSE selectedNotes \cup {c} ]_vars

(***************************************************************************)
(* The three grid writers called with any coordinate.  setCell tests only   *)
(* `step >= layer.length` before it reads layer[step].pitches, clearNotesAt *)
(* tests only that layer[step] exists, setNotesAt tests all four bounds.    *)
(***************************************************************************)
\* layer[step] is undefined for a negative step: reading .pitches of it throws
SetCellThrows(step, pitchIndex) ==
    /\ ~((~allowNonScaleNotes) /\ ~isInScale(pitchIndex))
    /\ HasCurrentLayer
    /\ step < Len(getCurrentLayer)
    /\ step < 0

writeFrame == << sequence, selectedSequenceIndex, bpm, stepsPerBeat, key, scale,
                 allowNonScaleNotes, synths, selectedSynthIndex, editorVars,
                 transportVars, historyVars >>

CallSetCell(step, pitchIndex, state) ==
    /\ UNCHANGED writeFrame
    /\ IF SetCellThrows(step, pitchIndex)
       THEN /\ lastOp' = "TypeError"
            /\ UNCHANGED patterns
       ELSE /\ lastOp' = "setCell"
            /\ patterns' = setCell(step, pitchIndex, state)

CallSetNotesAt(positions) ==
    /\ UNCHANGED writeFrame
    /\ lastOp' = "setNotesAt"
    /\ patterns' = IF HasCurrentLayer
                   THEN WithCurrentLayer(SetNotesIn(getCurrentLayer, positions))
                   ELSE patterns

CallClearNotesAt(positions) ==
    /\ UNCHANGED writeFrame
    /\ lastOp' = "clearNotesAt"
    /\ patterns' = IF HasCurrentLayer
                   THEN WithCurrentLayer(ClearNotesIn(getCurrentLayer, positions))
                   ELSE patterns

\* one step before the layer, its first step, one step past a default layer;
\* one pitch before the vector, its first slot, one slot past it
WriteCoords ==
    { -1, 0, DEFAULT_BEATS * DEFAULT_STEPS_PER_BEAT } \X { -1, 0, NUM_PITCHES }

\* one coordinate, or the first cell together with another coordinate
WritePositions == { { c } : c \in WriteCoords } \cup { { << 0, 0 >>, c } : c \in WriteCoords }

NextWrite ==
    \/ \E c \in Cells : Free(handleCellMousedown(c[1], c[2], NoMods))
    \/ Free(handleMouseup)
    \/ \E c \in WriteCoords, v \in BOOLEAN : Free(CallSetCell(c[1], c[2], v))
    \/ \E ps \in WritePositions : Free(CallSetNotesAt(ps))
    \/ \E ps \in WritePositions : Free(CallClearNotesAt(ps))

SpecWrite == Init /\ [][NextWrite]_vars

OutOfBounds(c) == HasCurrentLayer /\ ~InBounds(getCurrentLayer, c)

\* the step made left every pitch vector its size and every in-bounds cell its value
SameInBounds ==
    /\ Len(getCurrentLayer') = Len(getCurrentLayer)
    /\ \A i \in 1..Len(getCurrentLayer) :
          /\ getCurrentLayer'[i].pitches.length = getCurrentLayer[i].pitches.length
          /\ getCurrentLayer'[i].pitches.on \cap (0..(NUM_PITCHES - 1))
                = getCurrentLayer[i].pitches.on \cap (0..(NUM_PITCHES - 1))

C21_GuardedWritesAreNoOps ==
    [][ \A c \in WriteCoords, v \in BOOLEAN :
            OutOfBounds(c) =>
                /\ CallSetNotesAt({c}) => (SameInBounds /\ patterns' = patterns)
                /\ (c[1] >= Len(getCurrentLayer) /\ CallClearNotesAt({c}))
                      => (SameInBounds /\ patterns' = patterns)
                /\ (c[1] >= Len(getCurrentLayer) /\ CallSetCell(c[1], c[2], v))
                      => (lastOp' # "TypeError" /\ patterns' = patterns) ]_vars

\* a write one slot past the pitch vector has lengthened it
C21_VectorGrew ==
    /\ lastOp \in { "setCell", "clearNotesAt" }
    /\ \E i \in 1..Len(getCurrentLayer) : getCurrentLayer[i].pitches.length > NUM_PITCHES

\* setCell on a negative step has thrown
C21_Threw == lastOp = "TypeError"

(***************************************************************************)
(* The pattern pool under every kind of operation: the editing session of   *)
(* NextEdit together with the sequence strip.                               *)
(***************************************************************************)
NextPool ==
    \/ NextEdit
    \/ Event(AddToSequence)
    \/ Event(RemoveLast)
    \/ \E i \in 0..(MaxSeqLen - 1), d \in Directions :
          i < Len(sequence) /\ Event(cyclePatternAtPosition(i, d))
    \/ \E i \in 0..(MaxSeqLen - 1), d \in Directions :
          i < Len(sequence) /\ Event(movePatternInSequence(i, d))
    \/ \E i \in 0..(MaxSeqLen - 1) : Event(SelectSequenceIndex(i))

SpecPool == Init /\ [][NextPool]_vars

\* C22: in every reachable state the pool holds exactly 8 patterns with the
\* distinct ids 0..7 in order, each with one layer per synth (2 layers); no
\* operation adds, removes or re-ids a pattern.
C22_PoolIsFixed ==
    /\ Len(patterns) = MAX_PATTERNS
    /\ Len(synths) = 2
    /\ \A i \in 1..Len(patterns) :
          /\ patterns[i].id = MIN_PATTERN_ID + i - 1
          /\ Len(patterns[i].layers) = Len(synths)

\* the strip cell was cycled to pattern 1, its meter edited, and it was cleared
C22_ClearedAfterCycle ==
    /\ lastOp = "clear"
    /\ displayedPatternId = 1
    /\ patterns[2].beatsPerMeasure = Num(2)

(***************************************************************************)
(* The key and scale selectors with the lock, and cells painted under them. *)
(***************************************************************************)
NextScale ==
    \/ \E k \in { keys[i] : i \in DOMAIN keys } : Free(SetKey(k))
    \/ \E sc \in DOMAIN scales : Free(SetScale(sc))
    \/ Free(ToggleAllowNonScale)
    \/ \E c \in LockCells : Free(handleCellMousedown(c[1], c[2], NoMods))
    \/ Free(handleMouseup)

SpecScale == Init /\ [][NextScale]_vars

\* index(key): the place of the key's name in the chromatic list, from 0
KeyIndex(k) == CHOOSE i \in 0..11 : chromatic[i + 1] = k

\* C23: for every pitch slot p in 0..71, every key and every one of the 13
\* scales, with offset = (71 - p) mod 12: isRootNote(p) iff offset is the
\* key's index; isFifthNote(p) iff offset is (index + 7) mod 12; isInScale(p)
\* iff (offset - index + 12) mod 12 is in the scale's interval set;
\* isFifthInScale(p) is isFifthNote(p) and isInScale(p).  With key C and
\* Major every C slot is a root and no C-sharp slot is in the scale.
C23_ScaleTheory ==
    /\ Len(scaleNames) = 13
    /\ key \in { keys[i] : i \in DOMAIN keys }
    /\ \A p \in 0..71 :
          LET offset == (71 - p) % 12
              index == KeyIndex(key)
          IN  /\ isRootNote(p) <=> (offset = index)
              /\ isFifthNote(p) <=> (offset = (index + 7) % 12)
              /\ isInScale(p) <=> (((offset - index + 12) % 12) \in scales[scale])
              /\ isFifthInScale(p) <=> (isFifthNote(p) /\ isInScale(p))
    /\ (key = "C" /\ scale = "Major") =>
          \A octave \in 0..5 :
              /\ isRootNote(71 - 12 * octave)
              /\ ~isInScale(70 - 12 * octave)

\* Major was picked in the scale selector under key C, with the lock on
C23_BackToCMajor ==
    /\ lastOp = "scale"
    /\ key = "C"
    /\ scale = "Major"
    /\ isRootNote(11)
    /\ ~isInScale(10)
    /\ ~allowNonScaleNotes

(***************************************************************************)
(* Drag properties.                                                         *)
(***************************************************************************)
\* the coordinates of a layer that hold a note
GridOf(layer) ==
    UNION { { << i - 1, p >> : p \in layer[i].pitches.on } : i \in 1..Len(layer) }

\* the payload translated by the pointer's offset from the anchor, in bounds
DragTargets(c) ==
    { t \in { << n[1] + c[1] - dragStartCell[1], n[2] + c[2] - dragStartCell[2] >> :
                n \in dragStartNotes } :
        InBounds(dragStartLayer, t) }

\* C24: during a drag with payload P started on grid G0, after every
\* pointer-enter giving offset d the displayed layer is (G0 minus P) united
\* with the in-bounds cells of P + d for a move drag, and G0 united with
\* them for a clone drag, so every cell outside P and the targets keeps its
\* G0 value; pointer-up commits exactly that grid and ends the drag.
C24_DragShowsStartGridPlusPayload ==
    [][ /\ \A c \in Cells :
              ( /\ isDragging
                /\ dragStartCell # NullCell
                /\ dragStartLayer # NoLayer
                /\ ~isSelectingRect
                /\ handleCellMouseenter(c[1], c[2]) )
              => /\ Len(getCurrentLayer') = Len(dragStartLayer)
                 /\ GridOf(getCurrentLayer') =
                       IF isCloning
                       THEN GridOf(dragStartLayer) \cup DragTargets(c)
                       ELSE (GridOf(dragStartLayer) \ dragStartNotes) \cup DragTargets(c)
        /\ (isDragging /\ handleMouseup) => (patterns' = patterns /\ ~isDragging')
      ]_vars

\* a moved payload lies on a note that was on the grid when the drag began
C24_PayloadOnAnotherNote ==
    /\ lastOp = "mouseenter"
    /\ isDragging
    /\ ~isCloning
    /\ dragStartLayer # NoLayer
    /\ dragOverwrittenNotes # {}
    /\ dragOverwrittenNotes \subseteq GridOf(dragStartLayer)

(***************************************************************************)
(* Pointer-down properties.                                                 *)
(***************************************************************************)
Idle == ~isPainting /\ ~isSelectingRect /\ ~isDragging

AllModifiers == [ctrl : BOOLEAN, shift : BOOLEAN, alt : BOOLEAN]

\* what the step made has done, when it is the branch that the priority
\* list picks for a pointer-down on cell c with the modifiers e
BranchTaken(c, e) ==
    LET hasNote == HasNote(getCurrentLayer, c[1], c[2])
    IN  IF e.ctrl
        THEN /\ isSelectingRect' /\ ~isPainting' /\ ~isDragging'
             /\ selectionRectAnchor' = c
             /\ selectionRectExtent' = c
             /\ selectedNotes' = selectedNotes
        ELSE IF e.shift /\ hasNote
        THEN /\ selectedNotes' = IF c \in selectedNotes
                                 THEN selectedNotes \ { c }
                                 ELSE selectedNotes \cup { c }
             /\ Idle'
             /\ patterns' = patterns
        ELSE IF c \in selectedNotes
        THEN /\ isDragging' /\ ~isPainting' /\ ~isSelectingRect'
             /\ dragStartNotes' = selectedNotes
             /\ selectedNotes' = {}
             /\ patterns' = patterns
        ELSE /\ selectedNotes' = {}
             /\ paintTargetState' = ~hasNote
             /\ HasNote(getCurrentLayer', c[1], c[2]) = ~hasNote
             /\ isPainting' /\ ~isSelectingRect' /\ ~isDragging'

\* C25: a pointer-down on cell C from Idle takes exactly one branch, in this
\* priority: (1) rect-select modifier: RectSelecting with anchor = extent = C,
\* Selection unchanged; (2) additive modifier and C holds a note: C toggled in
\* Selection, still Idle, grid unchanged; (3) C in Selection: Dragging with
\* the whole Selection as payload, Selection emptied, grid unchanged;
\* (4) otherwise: Selection emptied, paintTarget = NOT(C active) written at
\* C, Painting.
C25_PointerDownTakesOneBranch ==
    [][ \A c \in Cells \cup LockCells, e \in AllModifiers :
            (Idle /\ handleCellMousedown(c[1], c[2], e)) => BranchTaken(c, e) ]_vars

\* C25 for the cells whose button is enabled
C25_EnabledCellTakesOneBranch ==
    [][ \A c \in Cells \cup LockCells, e \in AllModifiers :
            (Idle /\ ~IsDisabled(c[2]) /\ handleCellMousedown(c[1], c[2], e))
                => BranchTaken(c, e) ]_vars

(***************************************************************************)
(* Nudge and rectangle properties.                                          *)
(***************************************************************************)
\* the coordinates of S translated by d
Translated(S, d) == { << n[1] + d[1], n[2] + d[2] >> : n \in S }

\* C26: a nudge by offset d whose translated coordinates are all in bounds
\* yields grid' = (grid minus S) united with S + d and Selection' = S + d,
\* S being the Selection before the key press, also when S + d overlaps S.
C26_NudgeTranslatesSelection ==
    [][ \A arrow \in Arrows :
            ( /\ HasCurrentLayer
              /\ KeyArrow(arrow)
              /\ \A n \in selectedNotes : ~LeavesGrid(n, ArrowDelta(arrow)) )
            => /\ selectedNotes' = Translated(selectedNotes, ArrowDelta(arrow))
               /\ GridOf(getCurrentLayer') =
                     (GridOf(getCurrentLayer) \ selectedNotes)
                        \cup Translated(selectedNotes, ArrowDelta(arrow)) ]_vars

\* two adjacent selected notes were nudged one step right, onto each other's place
C26_AdjacentPairNudged ==
    /\ lastOp = "arrow"
    /\ selectedNotes = { << 1, 0 >>, << 2, 0 >> }
    /\ GridOf(getCurrentLayer) = { << 1, 0 >>, << 2, 0 >> }

\* x lies between a and b, whichever of the two is the smaller
Between(x, a, b) == (a <= x /\ x <= b) \/ (b <= x /\ x <= a)

\* C27: pointer-up while RectSelecting sets Selection to the previous
\* Selection united with every note-bearing coordinate of the displayed layer
\* inside the rectangle spanned by anchor and extent (inclusive, in either
\* corner order), leaves the grid unchanged, clears anchor and extent and
\* returns to Idle; pointer-up in any state leaves none of Painting,
\* RectSelecting or Dragging active.
C27_PointerUpSelectsRectangle ==
    [][ handleMouseup =>
            /\ Idle'
            /\ isSelectingRect =>
                  /\ selectedNotes' = selectedNotes \cup
                        { c \in GridOf(getCurrentLayer) :
                            /\ Between(c[1], selectionRectAnchor[1], selectionRectExtent[1])
                            /\ Between(c[2], selectionRectAnchor[2], selectionRectExtent[2]) }
                  /\ patterns' = patterns
                  /\ selectionRectAnchor' = NullCell
                  /\ selectionRectExtent' = NullCell ]_vars

\* two notes on a diagonal are selected after a pointer-up
C27_DiagonalSelected ==
    /\ lastOp = "mouseup"
    /\ Idle
    /\ selectedNotes = { << 0, 0 >>, << 1, 1 >> }
    /\ selectedNotes \subseteq GridOf(getCurrentLayer)

(***************************************************************************)
(* Legato dispatch properties.                                              *)
(***************************************************************************)
\* the oscillators of vs that sound the key k
VoicesOf(vs, k) == { v \in vs : v.synthId = k[1] /\ v.midiNote = k[2] }

\* C28: a legato dispatch at time t with duration D, when an entry for
\* (synthId, midiNote) exists: if the current time is more than 20 ms before
\* the entry's releaseAt, no new voice is started and the entry's releaseAt
\* becomes t + D; otherwise the existing voice is stopped and its entry
\* removed, and a fresh voice is started and registered with releaseAt =
\* t + D.  With no entry a fresh voice is started and registered with
\* releaseAt = t + D.
C28_LegatoDispatch ==
    [][ Dispatches =>
          \A i \in 1..Len(lastPlayed') :
              LET c == lastPlayed'[i]
                  k == KeyOf(c)
              IN  c.synth.legatoSameNote =>
                    /\ k \in DOMAIN activeNotes'
                    /\ activeNotes'[k].releaseAt = c.time + c.duration
                    /\ \E v \in VoicesOf(voices', k) :
                          v.id = activeNotes'[k].voice /\ v.stopAt = NoStop
                    /\ IF k \in DOMAIN activeNotes
                             /\ CurrentTime + 200 < activeNotes[k].releaseAt
                       THEN /\ lastHow'[i].branch = "sustain"
                            /\ activeNotes'[k].voice = activeNotes[k].voice
                            /\ VoicesOf(voices', k) = VoicesOf(voices, k)
                       ELSE IF k \in DOMAIN activeNotes
                       THEN /\ lastHow'[i].branch = "replace"
                            /\ Cardinality(VoicesOf(voices', k))
                                  = Cardinality(VoicesOf(voices, k))
                       ELSE /\ lastHow'[i].branch = "fresh"
                            /\ Cardinality(VoicesOf(voices', k))
                                  = Cardinality(VoicesOf(voices, k)) + 1 ]_vars

\* a legato dispatch found an entry whose release had passed and replaced its voice
C28_ReplacedAfterRelease ==
    /\ lastOp \in DispatchOps
    /\ \E i \in DOMAIN lastHow :
          /\ lastHow[i].branch = "replace"
          /\ ~lastHow[i].early
          /\ lastPlayed[i].synth.legatoSameNote

(***************************************************************************)
(* Playback at the default and at the fastest tempo and grid: the song is   *)
(* set up before start() is first called, then played.                      *)
(***************************************************************************)
TempoEvent(A) == audioCtx = "none" /\ edits < MaxTempoOps /\ A /\ edits' = edits + 1

NextTempo ==
    \/ Transport
    \/ \E s \in 0..MaxStepIn : TempoEvent(handleCellMousedown(s, 0, NoMods))
    \/ TempoEvent(ToggleLegato)
    \/ TempoEvent(SetBpm(Num(MAX_BPM)))
    \/ TempoEvent(SetGridSteps(Num(MAX_STEPS_PER_BEAT)))

SpecTempo == Init /\ [][NextTempo]_vars

\* the key k was dispatched to a legato synth by the dispatch before, and the
\* time that has passed since is the delay of the timeout armed then
OnTimeAfter(k) ==
    /\ k \in DOMAIN activeNotes
    /\ \E j \in 1..Len(lastPlayed) :
          /\ KeyOf(lastPlayed[j]) = k
          /\ lastPlayed[j].synth.legatoSameNote
          /\ activeNotes[k].releaseAt =
                lastPlayed[j].duration - TimeoutDelay(stepDurationSeconds)

\* the tick made has re-enveloped, in place, every voice that the tick
\* before it started or re-enveloped
Reenveloped ==
    \A i \in 1..Len(lastPlayed') :
        ( /\ lastPlayed'[i].synth.legatoSameNote
          /\ OnTimeAfter(KeyOf(lastPlayed'[i])) )
        => /\ lastHow'[i].branch = "sustain"
           /\ activeNotes'[KeyOf(lastPlayed'[i])].voice
                 = activeNotes[KeyOf(lastPlayed'[i])].voice

\* C29: when a legato synth has the same pitch active on two consecutive
\* steps, the dispatch at the second tick re-envelopes the voice started at
\* the first tick instead of starting a new voice, for every tempo in
\* [40,300] bpm and every steps-per-beat in [1,16].
C29_ConsecutiveStepsReenvelope ==
    [][ (lastOp' = "tick" /\ isPlaying) => Reenveloped ]_vars

\* C29 for the tempos and grids whose step lasts more than the 20 ms margin
C29_ReenvelopesWhenStepOutlastsGuard ==
    [][ (lastOp' = "tick" /\ isPlaying /\ stepDurationSeconds > 200) => Reenveloped ]_vars

\* at 120 bpm and 16 steps per beat (31.25 ms a step) the second tick re-enveloped
C29_ReenvelopedAtSixteenSteps ==
    /\ lastOp = "tick"
    /\ bpm = Num(DEFAULT_BPM)
    /\ stepsPerBeat = Num(MAX_STEPS_PER_BEAT)
    /\ \E i \in DOMAIN lastHow :
          lastHow[i].branch = "sustain" /\ lastPlayed[i].synth.legatoSameNote

(***************************************************************************)
(* Editing while the song plays.  Before start() is first called the first  *)
(* pattern is cut to one step a beat, the strip is grown and its second     *)
(* cell cycled to the next pattern; the first cell of the grid is clicked   *)
(* at any time.                                                             *)
(***************************************************************************)
FollowEvent(A) == edits < MaxFollowOps /\ A /\ edits' = edits + 1

NextFollow ==
    \/ Transport
    \/ audioCtx = "none" /\ FollowEvent(SetPatternSteps(Num(1)))
    \/ audioCtx = "none" /\ FollowEvent(AddToSequence)
    \/ audioCtx = "none" /\ Len(sequence) > 1
          /\ FollowEvent(cyclePatternAtPosition(1, 1))
    \/ FollowEvent(handleCellMousedown(0, 0, NoMods))

SpecFollow == Init /\ [][NextFollow]_vars

\* the sequence cells whose steps hold the playhead
PlayheadCells ==
    { i \in 0..(Len(sequence) - 1) :
        /\ getStepForSequenceIndex(i) <= currentStep
        /\ currentStep < getStepForSequenceIndex(i) + stepsPerPattern(sequence[i + 1]) }

\* the pattern under the playhead while playing, the selected cell's otherwise
PlayheadPatternId ==
    IF isPlaying /\ PlayheadCells # {}
    THEN sequence[(CHOOSE i \in PlayheadCells : TRUE) + 1]
    ELSE selectedPatternId

\* the click made on the first cell has toggled it in the selected synth's
\* layer of the pattern `id` and has left every other layer as it was
ClickWroteOnly(id) ==
    /\ \A j \in 1..Len(patterns) : \A l \in 1..Len(patterns[j].layers) :
          (patterns[j].id # id \/ l # selectedSynthIndex + 1)
             => patterns'[j].layers[l] = patterns[j].layers[l]
    /\ \A j \in 1..Len(patterns) :
          patterns[j].id = id =>
             HasNote(patterns'[j].layers[selectedSynthIndex + 1], 0, 0)
                = ~HasNote(patterns[j].layers[selectedSynthIndex + 1], 0, 0)

\* C30: the editor's handling of an input event does not depend on the
\* transport: from two states that differ only in isPlaying and currentStep
\* the same edit event addresses the same pattern layer and makes the same
\* change, so in every state, as in the stopped one, a click writes the
\* layer of the selected sequence cell's pattern.
C30_EditIgnoresTransport ==
    [][ handleCellMousedown(0, 0, NoMods) => ClickWroteOnly(selectedPatternId) ]_vars

\* C30, amended: an edit event addresses the selected synth's layer of the
\* displayed pattern, which is the selected sequence cell's pattern while
\* stopped and the pattern of the cell under the playhead while playing,
\* and changes no other layer.
C30_EditAddressesDisplayedLayer ==
    [][ handleCellMousedown(0, 0, NoMods) => ClickWroteOnly(PlayheadPatternId) ]_vars

\* while the song played another pattern than the selected cell's, a click
\* has put a note in the playing pattern and none in the selected one
C30_PaintedUnderPlayhead ==
    /\ lastOp = "mousedown"
    /\ isPlaying
    /\ PlayheadPatternId # selectedPatternId
    /\ HasNote(getCurrentLayer, 0, 0)
    /\ \A j \in 1..Len(patterns) :
          patterns[j].id = selectedPatternId =>
             ~HasNote(patterns[j].layers[selectedSynthIndex + 1], 0, 0)

(***************************************************************************)
(* The tempo and the grid steps per beat typed while the song plays.        *)
(***************************************************************************)
NextLive ==
    \/ Transport
    \/ Edit(SetBpm(Num(MAX_BPM)))
    \/ Edit(SetBpm(Num(DEFAULT_BPM)))
    \/ Edit(SetGridSteps(Num(MAX_STEPS_PER_BEAT)))

SpecLive == Init /\ [][NextLive]_vars

\* 60 / (bpm x steps per beat) seconds as a timeout delay: whole
\* milliseconds, in units of 0.1 ms, for a tempo and a grid within range
DelayOf(bpmValue, spbValue) == ((600000 \div (bpmValue.n * spbValue.n)) \div 10) * 10

\* C31: each timer tick computes the delay of the next timer from the tempo
\* and steps-per-beat current at that tick: a tempo change between two ticks
\* does not reschedule the timer already armed, and the delay armed at the
\* next tick and every later one uses the new value, with no stop/start.
C31_TickArmsFromCurrentTempo ==
    [][ /\ (lastOp' \in { "bpm", "gridSteps" })
            => (timers' = timers /\ timeoutId' = timeoutId /\ isPlaying' = isPlaying)
        /\ Dispatches
            => \E t \in timers' :
                  /\ t.id = timeoutId'
                  /\ t.due = DelayOf(bpm', stepsPerBeat')
                  /\ bpm' = bpm
                  /\ stepsPerBeat' = stepsPerBeat ]_vars

\* after a tick armed 125 ms the tempo was raised to 300 bpm, and the
\* pending timeout still has its 125 ms to run
C31_TempoRaisedBetweenTicks ==
    /\ lastOp = "bpm"
    /\ isPlaying
    /\ ticksSinceStart >= 1
    /\ bpm = Num(MAX_BPM)
    /\ \E t \in timers : t.id = timeoutId /\ t.due = 1250

\* the tick after the tempo was raised armed the delay of the new tempo
C31_NextTickUsedNewTempo ==
    /\ lastOp = "tick"
    /\ isPlaying
    /\ bpm = Num(MAX_BPM)
    /\ stepsPerBeat = Num(DEFAULT_STEPS_PER_BEAT)
    /\ \E t \in timers : t.id = timeoutId /\ t.due = 500

\* ---------------------------------------------------------------------
\* Escape among the pointer events of the grid
\* ---------------------------------------------------------------------

\* Pointer-downs with every modifier, pointer-enters, pointer-ups and Escape,
\* MaxOps events in all.
NextEscape ==
    \/ \E c \in Cells, e \in Modifiers : Event(handleCellMousedown(c[1], c[2], e))
    \/ \E c \in Cells : Event(handleCellMouseenter(c[1], c[2]))
    \/ Event(handleMouseup)
    \/ Event(KeyEscape)

SpecEscape == Init /\ [][NextEscape]_vars

C33_StoppedRegistryIsEmpty == ~isPlaying => activeNotes = << >>

\* a legato voice entered the registry after stop(): the awaited resume of a
\* stopped start() settled and dispatched the first step
C33_DispatchedAfterStop ==
    /\ lastOp = "resumed"
    /\ ~isPlaying
    /\ activeNotes # << >>

\* ---------------------------------------------------------------------
\* The Selection against the displayed grid
\* ---------------------------------------------------------------------

\* C34: every coordinate of the Selection is a cell of the displayed
\* pattern's selected layer and that cell holds a note.
C34_SelectionOnNotes == selectedNotes \subseteq GridOf(getCurrentLayer)

\* Clear has just emptied the pattern under a Selection that it left alone
C34_ClearedUnderSelection ==
    /\ lastOp = "clear"
    /\ selectedNotes # {}
    /\ GridOf(getCurrentLayer) = {}

\* ---------------------------------------------------------------------
\* The playhead against the length of the song
\* ---------------------------------------------------------------------

\* C35: while the transport is playing the playhead is a step of the song,
\* currentStep < totalSteps(), also between two ticks when the sequence has
\* just been shortened.
C35_PlayheadInsideSong == isPlaying => currentStep < totalSteps

\* the last sequence cell was removed while the playhead was inside it
C35_RemovedUnderPlayhead ==
    /\ lastOp = "remove"
    /\ isPlaying
    /\ currentStep >= totalSteps

(***************************************************************************)
(* A paint stroke while the song plays.  Before start() is first called the *)
(* strip is grown, its first cell is cycled to the next pattern, pattern 1, *)
(* and that pattern is cut to one step a beat, so that the song plays four  *)
(* steps of pattern 1 and then pattern 0.  The pointer goes down on the     *)
(* first cell while pattern 1 is displayed, enters the cell of the next     *)
(* step and goes up.  The song is started and is not stopped.               *)
(***************************************************************************)
GestureEvent(A) == edits < MaxGestureOps /\ A /\ edits' = edits + 1

NextGesture ==
    \/ Free(Start)
    \/ Free(ResumeDone)
    \/ \E t \in timers : Free(startPlayingStepsUsingTimeout(t))
    \/ Free(Advance)
    \/ audioCtx = "none" /\ ~isPainting /\ GestureEvent(AddToSequence)
    \/ audioCtx = "none" /\ ~isPainting /\ Len(sequence) > 1
          /\ GestureEvent(cyclePatternAtPosition(0, 1))
    \/ audioCtx = "none" /\ ~isPainting /\ displayedPatternId = 1
          /\ GestureEvent(SetPatternSteps(Num(1)))
    \/ displayedPatternId = 1 /\ ~isPainting
          /\ GestureEvent(handleCellMousedown(0, 0, NoMods))
    \/ isPainting /\ GestureEvent(handleCellMouseenter(1, 0))
    \/ isPainting /\ GestureEvent(handleMouseup)

SpecGesture == Init /\ [][NextGesture]_vars

\* the selected synth's layer of the pattern `id`
LayerOfPattern(id) ==
    patterns[CHOOSE j \in 1..Len(patterns) : patterns[j].id = id].layers[selectedSynthIndex + 1]

\* C36: every grid write of one gesture, from the pointer-down to the
\* following pointer-up, goes to the layer displayed at the pointer-down.
\* The pointer goes down only while pattern 1 is displayed, so a pointer-enter
\* of the stroke changes no other pattern, also when ticks have moved the
\* playhead into another pattern since.
C36_GestureWritesOneLayer ==
    [][ (isPainting /\ lastOp' = "mouseenter")
          => \A j \in 1..Len(patterns) :
                patterns[j].id # 1 => patterns'[j] = patterns[j] ]_vars

\* a stroke begun on pattern 1 has painted a cell of pattern 0, which the
\* playhead had reached by four ticks before the pointer entered the cell
C36_StrokeCrossedPatterns ==
    /\ lastOp = "mouseenter"
    /\ isPlaying
    /\ isPainting
    /\ ticksSinceStart = 4
    /\ displayedPatternId = 0
    /\ HasNote(LayerOfPattern(0), 1, 0)
    /\ HasNote(LayerOfPattern(1), 0, 0)
    /\ ~HasNote(LayerOfPattern(1), 1, 0)

\* ---------------------------------------------------------------------
\* The editor modes
\* ---------------------------------------------------------------------

\* C37: at most one of the editor modes painting, rectangle selecting and
\* dragging is active.
C37_OneEditorMode ==
    /\ ~(isPainting /\ isSelectingRect)
    /\ ~(isPainting /\ isDragging)
    /\ ~(isSelectingRect /\ isDragging)

\* a pointer-down with ctrl came after a plain pointer-down with no
\* pointer-up between them: a stroke and a rectangle are open together
C37_RectangleOverStroke ==
    /\ lastOp = "mousedown"
    /\ isPainting
    /\ isSelectingRect
    /\ ~isDragging

\* ---------------------------------------------------------------------
\* The notes a nudge passes over
\* ---------------------------------------------------------------------

\* C38: a nudge whose translated coordinates are all in bounds leaves the
\* number of notes of the layer unchanged and clears no note outside the
\* Selection.
C38_NudgeKeepsOtherNotes ==
    [][ \A arrow \in Arrows :
            ( /\ HasCurrentLayer
              /\ selectedNotes # {}
              /\ KeyArrow(arrow)
              /\ \A n \in selectedNotes : ~LeavesGrid(n, ArrowDelta(arrow)) )
            => /\ Cardinality(GridOf(getCurrentLayer')) =
                     Cardinality(GridOf(getCurrentLayer))
               /\ (GridOf(getCurrentLayer) \ selectedNotes)
                     \subseteq GridOf(getCurrentLayer') ]_vars

(***************************************************************************)
(* The song left playing.  Before start() is first called a note is painted *)
(* on the first step and the pattern is cut to one beat, four steps; then   *)
(* the song is started and stop() is never called.  Time passes,            *)
(* a timeout that is due fires and the awaited resume settles: these three  *)
(* are weakly fair.                                                         *)
(***************************************************************************)
Tick == \E t \in timers : Free(startPlayingStepsUsingTimeout(t))

NextRun ==
    \/ Free(Start)
    \/ Free(ResumeDone)
    \/ Tick
    \/ Free(Advance)
    \/ Setup(handleCellMousedown(0, 0, NoMods))
    \/ Setup(SetBeats(Num(1)))

SpecRun ==
    /\ Init
    /\ [][NextRun]_vars
    /\ WF_vars(Free(Advance))
    /\ WF_vars(Tick)
    /\ WF_vars(Free(ResumeDone))

\* C39: while the song plays and stop() is never called, a tick always
\* eventually occurs, every tick dispatches the step after the playhead
\* modulo totalSteps() and leaves exactly one timeout armed, and every step
\* of the song is dispatched again and again.  Once playing, the song stays
\* playing and its length stays what it is (second conjunct), so "whenever
\* playing, eventually Q" is "again and again, not playing or Q".
C39_EveryStepAgainAndAgain ==
    /\ [][ (lastOp' = "tick" /\ isPlaying)
             => /\ currentStep' = (currentStep + 1) % totalSteps
                /\ Cardinality(timers') = 1
                /\ \E t \in timers' : t.id = timeoutId' ]_vars
    /\ [][ isPlaying => (isPlaying' /\ totalSteps' = totalSteps) ]_vars
    /\ []<>(isPlaying => lastOp = "tick")
    /\ \A s \in 0..(MaxLoopSteps - 1) :
          []<>((isPlaying /\ s < totalSteps) => (lastOp = "tick" /\ currentStep = s))

\* the four-step song has gone round: the fourth tick after start() has
\* dispatched step 0 again
C39_LoopWentRound ==
    /\ lastOp = "tick"
    /\ isPlaying
    /\ totalSteps = 4
    /\ ticksSinceStart = 4
    /\ currentStep = 0
    /\ \E t \in timers : t.id = timeoutId

\* ---------------------------------------------------------------------
\* The selected cell of the sequence strip
\* ---------------------------------------------------------------------

\* C40: the selected sequence index is an index of the sequence,
\* 0 <= selectedSequenceIndex < sequence.length.
C40_SelectedCellExists ==
    /\ 0 <= selectedSequenceIndex
    /\ selectedSequenceIndex < Len(sequence)

\* the last cell was removed from a strip that had been grown and whose
\* cells had been picked, cycled or moved; the last cell left is selected
C40_RemovedAtSelection ==
    /\ lastOp = "remove"
    /\ edits >= 1
    /\ Len(sequence) >= 2
    /\ selectedSequenceIndex = Len(sequence) - 1

====
